---- MODULE Spec2Model ----
(***************************************************************************)
(* MCPSpy: the JSON-RPC parser / correlator (pkg/mcp/parser.go with the    *)
(* process chain of pkg/event) and the library hook manager                *)
(* (pkg/ebpf/library_manager.go with pkg/namespace/namespace.go).          *)
(*                                                                         *)
(* Time is counted in whole seconds.  The two expirable LRU caches of the  *)
(* parser hold, per entry, the age of the entry; Get finds an entry while  *)
(* its age is at most the TTL, and Tick removes the entries that are older *)
(* (what the library's background expiry does).  Capacity eviction (4096   *)
(* entries) is not reached by the bounded runs and is not modelled.        *)
(*                                                                         *)
(* An MCPEvent holds a pointer to the ProcessChain of the metadata it was  *)
(* published for, so its hops are those of the metadata: the model keeps   *)
(* the chain in the metadata, with the number of events published for it.  *)
(* A cached request carries the input event it was cached from (src), and  *)
(* a paired response the src of the request it got (reqSrc); neither is    *)
(* read by the program.                                                    *)
(***************************************************************************)
EXTENDS Integers, Sequences, FiniteSets, TLC

VARIABLES
    seenHashCache,   \* Parser.seenHashCache: content hash -> messageMetadata
    requestIDCache,  \* Parser.requestIDCache: cache key -> request message
    published,       \* the MCPEvents the last handler call published, in order
    last,            \* the last handler call: its input event and its calls on requestIDCache
    nobs             \* number of handler calls so far (bounds the runs)

parserVars == <<seenHashCache, requestIDCache, published, last, nobs>>

VARIABLES
    hookedLibs,      \* LibraryManager.hookedLibs: inode -> path
    failedLibs,      \* LibraryManager.failedLibs: inode -> error
    sw,              \* the MountNamespaceSwitcher, its cache and the thread's namespace
    libLast,         \* the last ProcessLibraryEvent call: its input, its calls, its result
    nlib             \* number of library manager calls so far (bounds the runs)

libVars == <<hookedLibs, failedLibs, sw, libLast, nlib>>

VARIABLES
    mu,              \* LibraryManager.mu: the worker that holds it, 0 when free
    wpc,             \* per worker: where it is in ProcessLibraryEvent
    wev,             \* per worker: the event of its call and what its checks found
    attached,        \* per inode: the calls of AttachSSLProbes made for it so far
    ncall            \* number of concurrent calls started so far (bounds the runs)

concVars == <<mu, wpc, wev, attached, ncall>>

VARIABLES
    json_streams,    \* the json_streams map: stream key -> json_aggregation_state
    ringbuf,         \* the data_event the last program run submitted to the ring buffer
    feed,            \* per stream: the transfer in progress and the events submitted for it
    ndeliv,          \* number of transfers started so far (bounds the runs)
    ktime,           \* bpf_ktime_get_ns(), in seconds
    last_update_ns   \* per stream key: last_update_ns of its json_streams entry, -1 without one

aggVars == <<json_streams, ringbuf, feed, ndeliv, ktime, last_update_ns>>

VARIABLES
    ssl_sessions,        \* the ssl_sessions map: SSL pointer -> ssl_session
    ssl_read_args,       \* the ssl_read_args map: pid -> the SSL of the SSL_read in progress
    ssl_handshake_args,  \* the ssl_handshake_args map: pid -> the SSL of the handshake in progress
    tlsEv,               \* the event the last probe submitted to the ring buffer
    handshaken,          \* per SSL: SSL_do_handshake returned 1 for it since its SSL_new
    ntls,                \* number of probe runs so far (bounds the runs)
    serverSide,          \* per SSL: its first classified payload since SSL_new showed a server-side role
    life,                \* per SSL: "live" since SSL_new returned it, "freed" since SSL_free took it
    ssl_read_ex_args,    \* the ssl_read_ex_args map: pid -> the SSL of the SSL_read_ex in progress
    tlsCount             \* the byte count of the operation the last payload probe ran for

tlsVars == <<ssl_sessions, ssl_read_args, ssl_handshake_args, tlsEv, handshaken, ntls,
             serverSide, life, ssl_read_ex_args, tlsCount>>

VARIABLES
    pw,              \* per goroutine inside ParseDataStdio / ParseDataHttp: where it is and its locals
    heap,            \* the messageMetadata objects made so far (their chains) and the one the cache holds
    cpub,            \* the MCPEvents the concurrent calls published, with the metadata each points to
    phops            \* the hops the concurrent calls observed

pcVars == <<pw, heap, cpub, phops>>

VARIABLES
    lmSw,            \* LibraryManager.nsSwitcher is not nil
    eventCh,         \* Loader.eventCh: "open" or "closed"
    swLast,          \* the last direct call of Close or Restore: what it did and returned
    ncl              \* how often each of them has been called so far (bounds the runs)

closeVars == <<lmSw, eventCh, swLast, ncl>>

VARIABLES
    idPair           \* two component tuples and the ids GenerateDeterministicID gave them

VARIABLES
    rt               \* an emitted MCPEvent, its JSON text and what json.Unmarshal makes of the text

VARIABLES
    classified       \* two input events given to a new parser: what parseJSONRPC made of the second, what was published

VARIABLES
    wfeed       \* what each stream's writer writes: the transfer and the vfs_write calls still to come

VARIABLES
    loader       \* the Loader after Load: its objs, links and reader, Load's error, and what the kernel answered

VARIABLES
    httpMsg       \* the data ParseMessage was given and what it returned

VARIABLES
    rb       \* the ring-buffer reader goroutine, the main loop and the event channels

VARIABLES
    nsw       \* the switcher used on its own: its state, its cleanup goroutine and its Close

VARIABLES
    thr       \* the SSL call each thread is in, who wrote each args entry, and the last return

vars == <<parserVars, libVars, concVars, aggVars, tlsVars, pcVars, closeVars, idPair, rt,
           classified, wfeed, loader, httpMsg, rb, nsw, thr>>

\* What the actions of one part leave alone.
notParser == <<libVars, concVars, aggVars, tlsVars, pcVars, closeVars, idPair, rt, classified, wfeed, loader, httpMsg, rb, nsw, thr>>
notLib == <<parserVars, concVars, aggVars, tlsVars, pcVars, closeVars, idPair, rt, classified, wfeed, loader, httpMsg, rb, nsw, thr>>
notConc == <<parserVars, libVars, aggVars, tlsVars, pcVars, closeVars, idPair, rt, classified, wfeed, loader, httpMsg, rb, nsw, thr>>
notLibConc == <<parserVars, aggVars, tlsVars, pcVars, closeVars, idPair, rt, classified, wfeed, loader, httpMsg, rb, nsw, thr>>
notAgg == <<parserVars, libVars, concVars, tlsVars, pcVars, closeVars, idPair, rt, classified, wfeed, loader, httpMsg, rb, nsw, thr>>
notTls == <<parserVars, libVars, concVars, aggVars, pcVars, closeVars, idPair, rt, classified, wfeed, loader, httpMsg, rb, nsw, thr>>
notParserPc == <<libVars, concVars, aggVars, tlsVars, closeVars, idPair, rt, classified, wfeed, loader, httpMsg, rb, nsw, thr>>
notSw == <<parserVars, hookedLibs, failedLibs, libLast, nlib, concVars, aggVars, tlsVars, pcVars,
           idPair, rt, classified, wfeed, loader, httpMsg, rb, nsw, thr>>
notId == <<parserVars, libVars, concVars, aggVars, tlsVars, pcVars, closeVars, rt, classified, wfeed, loader, httpMsg, rb, nsw, thr>>
notJson == <<parserVars, libVars, concVars, aggVars, tlsVars, pcVars, closeVars, idPair, classified, wfeed, loader, httpMsg, rb, nsw, thr>>
notClassify == <<parserVars, libVars, concVars, aggVars, tlsVars, pcVars, closeVars, idPair, rt, wfeed, loader, httpMsg, rb, nsw, thr>>
notWrite == <<parserVars, libVars, concVars, tlsVars, pcVars, closeVars, idPair, rt, classified, loader, httpMsg, rb, nsw, thr>>
notLoad == <<parserVars, libVars, concVars, aggVars, tlsVars, pcVars, closeVars, idPair, rt,
              classified, wfeed, httpMsg, rb, nsw, thr>>
notHttp == <<parserVars, libVars, concVars, aggVars, tlsVars, pcVars, closeVars, idPair, rt,
              classified, wfeed, loader, rb, nsw, thr>>
notRing == <<parserVars, libVars, concVars, aggVars, tlsVars, pcVars, closeVars, idPair, rt,
              classified, wfeed, loader, httpMsg, nsw, thr>>
notNs == <<parserVars, libVars, concVars, aggVars, tlsVars, pcVars, closeVars, idPair, rt,
            classified, wfeed, loader, httpMsg, rb, thr>>
notThr == <<parserVars, libVars, concVars, aggVars, pcVars, closeVars, idPair, rt,
            classified, wfeed, loader, httpMsg, rb, nsw>>

\* ---------------------------------------------------------------- bounds

MaxObs == 3
MaxHopObs == 4
MaxLibCalls == 3
MaxConcCalls == 3
MaxTransfers == 2
MaxFragments == 17
MaxTlsCalls == 5
MaxParCalls == 3
MaxCloses == 2
MaxPriorCalls == 1
MaxComponents == 2
MaxKtime == 6

\* ------------------------------------------------------- program constants

requestIDCacheTTL == 5
seenHashCacheTTL == 2
MAX_BUF_SIZE == 65536
MAX_AGGREGATED_SIZE == 65536
CHUNK_SIZE == 64
\* The iterations of bpf_loop in update_bracket_counts and in is_json_data.
CountIterations == 1024
ValidateIterations == 256
\* The shortest buffer is_json_data accepts.
MinJsonSize == 8
HTTP_VERSION_UNKNOWN == 0
HTTP_VERSION_1 == 1
HTTP_VERSION_2 == 2
HTTP_MESSAGE_REQUEST == 1
HTTP_MESSAGE_RESPONSE == 2
HTTP_MESSAGE_UNKNOWN == 3

\* ------------------------------------------------------------------ helpers

Range(s) == {s[i] : i \in 1..Len(s)}

Min(a, b) == IF a < b THEN a ELSE b
Max(a, b) == IF a < b THEN b ELSE a

\* ------------------------------------------------------------ the payloads
\* A payload is one JSON value as json.Decoder hands it over: the fields
\* gjson reads from it.  id is absent, a JSON number or a JSON string.

NoID == [k |-> "absent", v |-> ""]
NumID(s) == [k |-> "num", v |-> s]
StrID(s) == [k |-> "str", v |-> s]
NoMethod == ""

Payload(ver, id, hasMethod, method, hasResult, hasError) ==
    [id |-> id, hasMethod |-> hasMethod, method |-> method, hasResult |-> hasResult,
     hasError |-> hasError, jsonrpc |-> ver]

ReqInit  == Payload("2.0", NumID("1"), TRUE, "initialize", FALSE, FALSE)
RespOne  == Payload("2.0", NumID("1"), FALSE, NoMethod, TRUE, FALSE)
Notif    == Payload("2.0", NoID, TRUE, "notifications/initialized", FALSE, FALSE)
ReqStr   == Payload("2.0", StrID("1"), TRUE, "tools/call", FALSE, FALSE)
ReqBogus == Payload("2.0", NumID("2"), TRUE, "bogus/method", FALSE, FALSE)

Payloads == {ReqInit, RespOne, Notif}

\* The buffers the handlers are given: sequences of JSON values.
Buffers == {<<p>> : p \in Payloads}

\* ---------------------------------------------------------- process chain

Hop(from, to) == [from |-> from, to |-> to]

\* ProcessChain.CorrelationSignature: the first hop with its pids sorted,
\* "%d<->%d"; "" for an empty chain.
CorrelationSignature(pc) ==
    IF Len(pc) = 0 THEN <<>>
    ELSE <<ToString(Min(pc[1].from, pc[1].to)), "<->",
           ToString(Max(pc[1].from, pc[1].to))>>

\* AddHop without the search for the hop: every hop is appended.
AddHopRepeats(pc, hop) == Append(pc, hop)

\* ProcessChain.AddHop: append unless a hop with the same pids is there.
AddHop(pc, hop) ==
    IF \E i \in 1..Len(pc) : pc[i].from = hop.from /\ pc[i].to = hop.to
    THEN pc
    ELSE Append(pc, hop)

\* ------------------------------------------------------------------ parsing

NoIDValue == [v |-> "", t |-> "nil"]

\* parseID: a JSON number becomes an int64, anything else its string.
parseID(raw) ==
    IF raw.k = "num" THEN [v |-> raw.v, t |-> "int"]
    ELSE [v |-> raw.v, t |-> "str"]

Msg(type, id, method, hasResult, hasError) ==
    [id |-> id, method |-> method, hasResult |-> hasResult, hasError |-> hasError,
     type |-> type, request |-> <<>>]

ParseError == [id |-> NoIDValue, method |-> "", hasResult |-> FALSE,
               hasError |-> FALSE, type |-> "error", request |-> <<>>]

\* parseJSONRPC testing for a response before it tests for a request.
parseResponseFirst(p) ==
    IF p.jsonrpc # "2.0" THEN ParseError
    ELSE IF p.id.k # "absent" /\ (p.hasResult \/ p.hasError)
         THEN Msg("response", parseID(p.id), "", p.hasResult, p.hasError)
    ELSE IF p.hasMethod /\ p.id.k # "absent"
         THEN Msg("request", parseID(p.id), p.method, FALSE, FALSE)
    ELSE IF p.hasMethod
         THEN Msg("notification", NoIDValue, p.method, FALSE, FALSE)
    ELSE ParseError

\* Parser.parseJSONRPC: classification by field presence.
parseJSONRPC(p) ==
    IF p.jsonrpc # "2.0" THEN ParseError
    ELSE IF p.hasMethod /\ p.id.k # "absent"
         THEN Msg("request", parseID(p.id), p.method, FALSE, FALSE)
    ELSE IF p.id.k # "absent" /\ (p.hasResult \/ p.hasError)
         THEN Msg("response", parseID(p.id), "", p.hasResult, p.hasError)
    ELSE IF p.hasMethod
         THEN Msg("notification", NoIDValue, p.method, FALSE, FALSE)
    ELSE ParseError

allowedMCPMethods ==
    {"initialize", "ping", "notifications/initialized", "notifications/cancelled",
     "tools/list", "tools/call", "notifications/tools/list_changed",
     "resources/list", "resources/templates/list", "resources/read",
     "resources/subscribe", "resources/unsubscribe",
     "notifications/resources/list_changed", "notifications/resources/updated",
     "prompts/list", "prompts/get", "completion/complete",
     "notifications/prompts/list_changed", "notifications/progress",
     "logging/setLevel", "notifications/message", "sampling/createMessage",
     "elicitation/create", "roots/list", "notifications/roots/list_changed"}

\* validateMCPMessage without the look-up in allowedMCPMethods.
validateShapeOnly(msg) ==
    CASE msg.type = "request" -> msg.id.t # "nil"
      [] msg.type = "response" -> msg.id.t # "nil"
      [] msg.type = "notification" -> msg.id.t = "nil"
      [] OTHER -> FALSE

\* Parser.validateMCPMessage: TRUE when it returns nil.
validateMCPMessage(msg) ==
    CASE msg.type = "request" ->
            msg.method \in allowedMCPMethods /\ msg.id.t # "nil"
      [] msg.type = "response" -> msg.id.t # "nil"
      [] msg.type = "notification" ->
            msg.method \in allowedMCPMethods /\ msg.id.t = "nil"
      [] OTHER -> FALSE

\* Parser.calculateHash: SHA-1 of the bytes; taken to be free of collisions,
\* so the hash of a payload is the payload.
calculateHash(p) == p

\* ------------------------------------------------------------ the caches

\* expirable.LRU.Get: the entry, when there is one that has not expired.
Live(cache, key, ttl) == key \in DOMAIN cache /\ cache[key].age <= ttl

\* expirable.LRU.Add: insert or replace, with a fresh expiry.
CachePut(cache, key, val) ==
    [k \in DOMAIN cache \cup {key} |-> IF k = key THEN val ELSE cache[k]]

\* The passing of one second for a cache: older entries, expired ones removed.
Aged(cache, ttl) ==
    [k \in {x \in DOMAIN cache : cache[x].age + 1 <= ttl} |->
        [cache[k] EXCEPT !.age = @ + 1]]

\* idToCacheKey without the chain's signature: the id alone.
idToCacheKeyNoChain(id, sig) ==
    IF id.t = "int" THEN <<"i:", id.v>> ELSE <<"s:", id.v>>

\* Parser.idToCacheKey: "i:<id>" or "s:<id>", then "|<corr_sig>" when the
\* chain is given and its signature is not empty.  sig is <<>> for a nil
\* chain.  Formatting is modelled as the concatenation of its pieces.
idToCacheKey(id, sig) ==
    LET baseKey == IF id.t = "int" THEN <<"i:", id.v>> ELSE <<"s:", id.v>>
    IN  IF sig # <<>> THEN baseKey \o <<"|">> \o sig ELSE baseKey


\* ------------------------------------------------------- parser state
\* The handlers are written as functions of a record st of the parser's
\* state: seen (seenHashCache), req (requestIDCache), pub (the events
\* published by the running handler) and ops (its calls on requestIDCache).

ParserState(seen, req, pub, ops) ==
    [seen |-> seen, req |-> req, pub |-> pub, ops |-> ops]

\* Where a cached request came from: its input event and its bytes.
Src(ev, jsonData) ==
    [from |-> ev.from, to |-> ev.to, t |-> ev.t, raw |-> <<jsonData>>,
     pid |-> ev.pid, ssl |-> ev.ssl]

NoSrc == [from |-> 0, to |-> 0, t |-> "none", raw |-> <<>>, pid |-> 0, ssl |-> 0]

\* getOrCreateMessageMetadata without the lookup: every observation is new.
getOrCreateAlwaysNew(st, hash, hop) ==
    [st |-> [st EXCEPT !.seen = CachePut(@, hash,
                          [age |-> 0, hops |-> <<hop>>, emitted |-> 0])],
     isNew |-> TRUE]

\* Parser.getOrCreateMessageMetadata: the metadata of the hash is st.seen[hash]
\* afterwards; isNew tells whether this call created it.
getOrCreateMessageMetadata(st, hash, hop) ==
    IF Live(st.seen, hash, seenHashCacheTTL)
    THEN [st |-> [st EXCEPT !.seen[hash].hops = AddHop(@, hop)],
          isNew |-> FALSE]
    ELSE [st |-> [st EXCEPT !.seen = CachePut(@, hash,
                               [age |-> 0, hops |-> <<hop>>, emitted |-> 0])],
          isNew |-> TRUE]

\* Parser.cacheRequestMessage.
cacheRequestMessage(st, msg, sig, src) ==
    IF msg.id.t = "nil" \/ msg.request # <<>>
    THEN [msg |-> msg, st |-> st, reqSrc |-> NoSrc, err |-> TRUE]
    ELSE LET key == idToCacheKey(msg.id, sig)
         IN  [msg |-> msg,
              st |-> [st EXCEPT !.req = CachePut(@, key,
                                   [msg |-> msg, age |-> 0, src |-> src]),
                                !.ops = Append(@, [key |-> key, op |-> "Add"])],
              reqSrc |-> NoSrc, err |-> FALSE]

\* Parser.getRequestByID.
getRequestByID(st, id, sig) ==
    IF id.t = "nil"
    THEN [req |-> <<>>, st |-> st, src |-> NoSrc, exists |-> FALSE]
    ELSE LET key == idToCacheKey(id, sig)
             st2 == [st EXCEPT !.ops = Append(@, [key |-> key, op |-> "Get"])]
         IN  IF Live(st.req, key, requestIDCacheTTL)
             THEN [req |-> <<st.req[key].msg>>, st |-> st2, src |-> st.req[key].src,
                   exists |-> TRUE]
             ELSE [req |-> <<>>, st |-> st2, src |-> NoSrc, exists |-> FALSE]

\* handleRequestResponseCorrelation without the error for a response whose
\* request is not found.
correlationKeepsUnmatched(st, msg, chain, isHTTP, src) ==
    LET sig == IF isHTTP THEN <<>> ELSE CorrelationSignature(chain)
    IN  IF msg.type = "request" THEN cacheRequestMessage(st, msg, sig, src)
        ELSE IF msg.type = "response"
        THEN LET g == getRequestByID(st, msg.id, sig)
             IN  [msg |-> [msg EXCEPT !.request = g.req], st |-> g.st,
                  reqSrc |-> g.src, err |-> FALSE]
        ELSE [msg |-> msg, st |-> st, reqSrc |-> NoSrc, err |-> FALSE]

\* handleRequestResponseCorrelation caching whatever is not a response.
correlationCachesAll(st, msg, chain, isHTTP, src) ==
    LET sig == IF isHTTP THEN <<>> ELSE CorrelationSignature(chain)
    IN  IF msg.type = "response"
        THEN LET g == getRequestByID(st, msg.id, sig)
             IN  IF ~g.exists
                 THEN [msg |-> msg, st |-> g.st, reqSrc |-> NoSrc, err |-> TRUE]
                 ELSE [msg |-> [msg EXCEPT !.request = g.req], st |-> g.st,
                       reqSrc |-> g.src, err |-> FALSE]
        ELSE LET key == idToCacheKey(msg.id, sig)
             IN  [msg |-> msg,
                  st |-> [st EXCEPT !.req = CachePut(@, key,
                                       [msg |-> msg, age |-> 0, src |-> src]),
                                    !.ops = Append(@, [key |-> key, op |-> "Add"])],
                  reqSrc |-> NoSrc, err |-> FALSE]

\* handleRequestResponseCorrelation using the chain's signature for HTTP too.
correlationScopedToProcess(st, msg, chain, isHTTP, src) ==
    LET sig == CorrelationSignature(chain)
    IN  IF msg.type = "request" THEN cacheRequestMessage(st, msg, sig, src)
        ELSE IF msg.type = "response"
        THEN LET g == getRequestByID(st, msg.id, sig)
             IN  IF ~g.exists
                 THEN [msg |-> msg, st |-> g.st, reqSrc |-> NoSrc, err |-> TRUE]
                 ELSE [msg |-> [msg EXCEPT !.request = g.req], st |-> g.st,
                       reqSrc |-> g.src, err |-> FALSE]
        ELSE [msg |-> msg, st |-> st, reqSrc |-> NoSrc, err |-> FALSE]

\* Parser.handleRequestResponseCorrelation: a request is cached, a response
\* gets its request attached or an error, a notification passes.  chain is
\* the metadata's process chain.
handleRequestResponseCorrelation(st, msg, chain, isHTTP, src) ==
    LET sig == IF isHTTP THEN <<>> ELSE CorrelationSignature(chain)
    IN  IF msg.type = "request" THEN cacheRequestMessage(st, msg, sig, src)
        ELSE IF msg.type = "response"
        THEN LET g == getRequestByID(st, msg.id, sig)
             IN  IF ~g.exists
                 THEN [msg |-> msg, st |-> g.st, reqSrc |-> NoSrc, err |-> TRUE]
                 ELSE [msg |-> [msg EXCEPT !.request = g.req], st |-> g.st,
                       reqSrc |-> g.src, err |-> FALSE]
        ELSE [msg |-> msg, st |-> st, reqSrc |-> NoSrc, err |-> FALSE]

\* The MCPEvent built by ParseDataStdio / ParseDataHttp.  chain points to the
\* ProcessChain of the metadata of this hash; sslCtx is the SSL context of
\* the input event and reqSrc the input event of the attached request.
MCPEvent(ev, jsonData, hash, c) ==
    [from |-> ev.from, to |-> ev.to, raw |-> jsonData, msg |-> c.msg, pid |-> ev.pid,
     reqSrc |-> c.reqSrc, chain |-> hash, transport |-> ev.t,
     isRequest |-> (ev.kind = "request"), sslCtx |-> ev.ssl]

\* The rest of a round of the decoding loop once the metadata of the value is
\* known: parse, validate, correlate, publish.
afterMetadata(st, ev, jsonData, hash, isNew) ==
    LET isHTTP == ev.t = "http"
        msg == parseJSONRPC(jsonData)
        c == handleRequestResponseCorrelation(st, msg, st.seen[hash].hops,
                                              isHTTP, Src(ev, jsonData))
    IN  IF ~isNew THEN [st |-> st, stop |-> FALSE]
        ELSE IF msg.type = "error" THEN [st |-> st, stop |-> TRUE]
        ELSE IF ~validateMCPMessage(msg) THEN [st |-> st, stop |-> TRUE]
        ELSE IF c.err THEN [st |-> c.st, stop |-> ~isHTTP]
        ELSE [st |-> [c.st EXCEPT !.pub = Append(@, MCPEvent(ev, jsonData, hash, c)),
                                  !.seen[hash].emitted = @ + 1],
              stop |-> FALSE]

\* One round of the decoding loop of ParseDataStdio / ParseDataHttp: what is
\* done with one JSON value of the buffer.  stop is TRUE when the handler
\* returns instead of going on with the next value.
ParseOne(st, ev, jsonData) ==
    LET isHTTP == ev.t = "http"
        hop == IF isHTTP THEN Hop(ev.pid, ev.pid) ELSE Hop(ev.from, ev.to)
        hash == calculateHash(jsonData)
        m == getOrCreateMessageMetadata(st, hash, hop)
    IN  afterMetadata(m.st, ev, jsonData, hash, m.isNew)

RECURSIVE ParseFrom(_, _, _)
ParseFrom(st, ev, i) ==
    IF i > Len(ev.buf) THEN st
    ELSE LET r == ParseOne(st, ev, ev.buf[i])
         IN  IF r.stop THEN r.st ELSE ParseFrom(r.st, ev, i + 1)

\* ------------------------------------------------------- parser actions

StdioHops == {<<100, 200>>, <<200, 300>>, <<300, 200>>, <<200, 100>>}
HttpSessions == {[pid |-> 400, ssl |-> 1], [pid |-> 500, ssl |-> 2]}

\* The buffers an HttpRequestEvent carries are those of the client's own
\* messages, an HttpResponseEvent those of responses.
HttpKindOf(b) ==
    IF \A i \in 1..Len(b) : parseJSONRPC(b[i]).type = "response"
    THEN "response" ELSE "request"

NoEvent == [from |-> 0, to |-> 0, t |-> "none", pid |-> 0, ssl |-> 0,
            kind |-> "none", buf |-> <<>>]

Handle(ev, bound) ==
    LET st == ParseFrom(ParserState(seenHashCache, requestIDCache, <<>>, <<>>), ev, 1)
    IN  /\ nobs < bound
        /\ seenHashCache' = st.seen
        /\ requestIDCache' = st.req
        /\ published' = st.pub
        /\ last' = [ops |-> st.ops, ev |-> ev]
        /\ nobs' = nobs + 1
        /\ UNCHANGED notParser

\* Parser.ParseDataStdio on an FSAggregatedEvent.
ParseDataStdio ==
    \E h \in StdioHops, b \in Buffers :
        Handle([from |-> h[1], to |-> h[2], t |-> "stdio", pid |-> 0, ssl |-> 0,
                kind |-> "fs", buf |-> b], MaxObs)

\* Parser.ParseDataStdio on the events of one request and its response that
\* travel client <-> proxy <-> server.
ParseDataStdioHops ==
    \E h \in StdioHops, b \in {<<ReqInit>>, <<RespOne>>} :
        Handle([from |-> h[1], to |-> h[2], t |-> "stdio", pid |-> 0, ssl |-> 0,
                kind |-> "fs", buf |-> b], MaxHopObs)

\* Parser.ParseDataHttp on an HttpRequestEvent or an HttpResponseEvent.
ParseDataHttp ==
    \E s \in HttpSessions, b \in Buffers :
        Handle([from |-> 0, to |-> 0, t |-> "http", pid |-> s.pid, ssl |-> s.ssl,
                kind |-> HttpKindOf(b), buf |-> b], MaxObs)

\* A payload whose version is not "2.0", which parseJSONRPC refuses.
ReqOldVersion == Payload("1.0", NumID("3"), TRUE, "initialize", FALSE, FALSE)

\* Buffers of one value, and of two with a value the handler drops (a
\* request outside the allow-list, one that parseJSONRPC refuses, a
\* response) before a valid request, or a request before its response.
ManyBuffers ==
    {<<v>> : v \in {ReqInit, RespOne, ReqBogus, ReqOldVersion}}
        \cup {<<v, ReqInit>> : v \in {RespOne, ReqBogus, ReqOldVersion}}
        \cup {<<ReqInit, RespOne>>}

\* ParseDataStdio and ParseDataHttp on a buffer of several values.
ParseDataMany ==
    \E b \in ManyBuffers :
        \/ Handle([from |-> 100, to |-> 200, t |-> "stdio", pid |-> 0, ssl |-> 0,
                   kind |-> "fs", buf |-> b], MaxObs)
        \/ Handle([from |-> 0, to |-> 0, t |-> "http", pid |-> 400, ssl |-> 1,
                   kind |-> HttpKindOf(b), buf |-> b], MaxObs)

\* One second passes.
Tick ==
    /\ seenHashCache' = Aged(seenHashCache, seenHashCacheTTL)
    /\ requestIDCache' = Aged(requestIDCache, requestIDCacheTTL)
    /\ UNCHANGED <<published, last, nobs>>
    /\ UNCHANGED notParser

ParserInit ==
    /\ seenHashCache = <<>>
    /\ requestIDCache = <<>>
    /\ published = <<>>
    /\ last = [ops |-> <<>>, ev |-> NoEvent]
    /\ nobs = 0

\* ------------------------------------------------- mount namespace switcher
\* sw is the MountNamespaceSwitcher together with what it acts on:
\*   curNS      the mount namespace of the worker's OS thread
\*   lockDepth  how often the goroutine is locked to its thread
\*              (runtime.LockOSThread nests, UnlockOSThread undoes one)
\*   open       the open namespace file descriptors: fd -> namespace id
\*   cache      namespaceCache.fds: namespace id -> fd

HomeNS == 1
MountNamespaces == {1, 2, 3}
originalFd == 3
Inodes == {11, 12, 13}

Without(f, x) == [k \in DOMAIN f \ {x} |-> f[k]]

\* The descriptor open(2) returns: the lowest one that is not in use.
LowestFreeFd(open) ==
    CHOOSE fd \in 0..(Cardinality(DOMAIN open) + originalFd + 1) :
        /\ fd > originalFd
        /\ fd \notin DOMAIN open
        /\ \A g \in (originalFd + 1)..(fd - 1) : g \in DOMAIN open

\* SwitchToByFd that leaves the goroutine locked when setns fails.
SwitchToByFdLeaking(s, nsFd, setnsOK) ==
    IF setnsOK
    THEN [s |-> [s EXCEPT !.lockDepth = @ + 1, !.curNS = s.open[nsFd]], ok |-> TRUE]
    ELSE [s |-> [s EXCEPT !.lockDepth = @ + 1], ok |-> FALSE]

\* MountNamespaceSwitcher.SwitchToByFd; setnsOK is whether setns succeeds.
SwitchToByFd(s, nsFd, setnsOK) ==
    IF setnsOK
    THEN [s |-> [s EXCEPT !.lockDepth = @ + 1, !.curNS = s.open[nsFd]], ok |-> TRUE]
    ELSE [s |-> s, ok |-> FALSE]

\* remove that deletes the entry and leaves its descriptor open.
cacheRemoveKeepingOpen(s, nsID) ==
    IF nsID \in DOMAIN s.cache
    THEN [s EXCEPT !.cache = Without(@, nsID)]
    ELSE s

\* namespaceCache.remove: the entry is deleted and its descriptor closed.
cacheRemove(s, nsID) ==
    IF nsID \in DOMAIN s.cache
    THEN [s EXCEPT !.cache = Without(@, nsID), !.open = Without(@, s.cache[nsID])]
    ELSE s

\* MountNamespaceSwitcher.SwitchTo.  env tells what the system calls do:
\* cachedOK (setns on the cached fd), findOK (a process of the namespace is
\* found and its ns file opened), freshOK (setns on the fd just opened).
SwitchTo(s, targetNSID, env) ==
    LET viaCache == IF targetNSID \in DOMAIN s.cache
                    THEN SwitchToByFd(s, s.cache[targetNSID], env.cachedOK)
                    ELSE [s |-> s, ok |-> FALSE]
        s1 == cacheRemove(viaCache.s, targetNSID)
        fd == LowestFreeFd(s1.open)
        s2 == [s1 EXCEPT !.open = CachePut(@, fd, targetNSID)]
        fresh == SwitchToByFd(s2, fd, env.freshOK)
    IN  IF viaCache.ok THEN [s |-> viaCache.s, ok |-> TRUE]
        ELSE IF ~env.findOK THEN [s |-> s1, ok |-> FALSE]
        ELSE IF ~fresh.ok THEN [s |-> s1, ok |-> FALSE]
        ELSE [s |-> [fresh.s EXCEPT !.cache = CachePut(@, targetNSID, fd)],
              ok |-> TRUE]

\* Restore that closes the home descriptor once it has used it.
RestoreOnce(s, setnsOK) ==
    LET s1 == IF setnsOK THEN [s EXCEPT !.curNS = s.open[originalFd]] ELSE s
    IN  [s |-> [s1 EXCEPT !.lockDepth = Max(0, @ - 1), !.open = Without(@, originalFd)],
         ok |-> setnsOK]

\* MountNamespaceSwitcher.Restore: setns to the home fd, which may fail, and
\* in either case UnlockOSThread (which does nothing on an unlocked goroutine).
Restore(s, setnsOK) ==
    LET s1 == IF setnsOK THEN [s EXCEPT !.curNS = s.open[originalFd]] ELSE s
    IN  [s |-> [s1 EXCEPT !.lockDepth = Max(0, @ - 1)], ok |-> setnsOK]

\* ------------------------------------------------------- library manager
\* The manager is written as a function of a record lm of its state: hooked
\* (hookedLibs), failed (failedLibs), sw (nsSwitcher and the thread), calls
\* (the calls made on the switcher and the attacher, with their outcome).

mountNS == HomeNS

Path(inode) == <<"/usr/lib/libssl.so", inode>>

Called(lm, what) == [lm EXCEPT !.calls = Append(@, what)]

\* attachSSLProbesInNamespace with the Restore deferred before SwitchTo.
attachRestoresAlways(lm, path, targetMountNS, env) ==
    LET sr == SwitchTo(lm.sw, targetMountNS, env)
        l1 == Called([lm EXCEPT !.sw = sr.s],
                     IF sr.ok THEN "SwitchTo:ok" ELSE "SwitchTo:err")
        l2 == IF sr.ok
              THEN Called(l1, IF env.attachOK THEN "AttachSSLProbes:ok"
                              ELSE "AttachSSLProbes:err")
              ELSE l1
        rr == Restore(l2.sw, env.restoreOK)
        l3 == Called([l2 EXCEPT !.sw = rr.s],
                     IF rr.ok THEN "Restore:ok" ELSE "Restore:err")
    IN  IF ~sr.ok THEN [err |-> "switch", lm |-> l3]
        ELSE [err |-> IF env.attachOK THEN "nil" ELSE "attach", lm |-> l3]

\* attachSSLProbesInNamespace with Restore called on the success path only.
attachRestoresOnSuccessOnly(lm, path, targetMountNS, env) ==
    LET sr == SwitchTo(lm.sw, targetMountNS, env)
        l1 == Called([lm EXCEPT !.sw = sr.s],
                     IF sr.ok THEN "SwitchTo:ok" ELSE "SwitchTo:err")
        l2 == Called(l1, IF env.attachOK THEN "AttachSSLProbes:ok"
                         ELSE "AttachSSLProbes:err")
        rr == Restore(l2.sw, env.restoreOK)
        l3 == Called([l2 EXCEPT !.sw = rr.s],
                     IF rr.ok THEN "Restore:ok" ELSE "Restore:err")
    IN  IF ~sr.ok THEN [err |-> "switch", lm |-> l1]
        ELSE IF env.attachOK THEN [err |-> "nil", lm |-> l3]
        ELSE [err |-> "attach", lm |-> l2]

\* LibraryManager.attachSSLProbesInNamespace: SwitchTo; when it fails, return
\* its error; else AttachSSLProbes, then (deferred) Restore, whose error is
\* logged only; the result is that of AttachSSLProbes.
attachSSLProbesInNamespace(lm, path, targetMountNS, env) ==
    LET sr == SwitchTo(lm.sw, targetMountNS, env)
        l1 == Called([lm EXCEPT !.sw = sr.s],
                     IF sr.ok THEN "SwitchTo:ok" ELSE "SwitchTo:err")
        l2 == Called(l1, IF env.attachOK THEN "AttachSSLProbes:ok"
                         ELSE "AttachSSLProbes:err")
        rr == Restore(l2.sw, env.restoreOK)
        l3 == Called([l2 EXCEPT !.sw = rr.s],
                     IF rr.ok THEN "Restore:ok" ELSE "Restore:err")
    IN  IF ~sr.ok THEN [err |-> "switch", lm |-> l1]
        ELSE [err |-> IF env.attachOK THEN "nil" ELSE "attach", lm |-> l3]

\* LibraryManager.ProcessLibraryEvent, its two checks: the inode is hooked
\* already, or has failed before.
alreadyHandled(lm, inode) ==
    inode \in DOMAIN lm.hooked \/ inode \in DOMAIN lm.failed

\* LibraryManager.ProcessLibraryEvent after its checks: attach, in the other
\* namespace when the library is in one, and record the outcome.
attachAndRecord(lm, inode, targetMountNS, env) ==
    LET path == Path(inode)
        inNS == attachSSLProbesInNamespace(lm, path, targetMountNS, env)
        direct == [err |-> IF env.attachOK THEN "nil" ELSE "attach",
                   lm |-> Called(lm, IF env.attachOK THEN "AttachSSLProbes:ok"
                                     ELSE "AttachSSLProbes:err")]
        r == IF targetMountNS # mountNS THEN inNS ELSE direct
    IN  IF r.err # "nil"
        THEN [lm |-> [r.lm EXCEPT !.failed = CachePut(@, inode, r.err)],
              ret |-> r.err]
        ELSE [lm |-> [r.lm EXCEPT !.hooked = CachePut(@, inode, path)],
              ret |-> "nil"]

\* LibraryManager.ProcessLibraryEvent, under lm.mu from start to end.
ProcessLibraryEventOn(lm, inode, targetMountNS, env) ==
    IF alreadyHandled(lm, inode) THEN [lm |-> lm, ret |-> "nil"]
    ELSE attachAndRecord(lm, inode, targetMountNS, env)

Envs == [cachedOK : BOOLEAN, freshOK : BOOLEAN, findOK : BOOLEAN,
         attachOK : BOOLEAN, restoreOK : BOOLEAN]

ProcessLibraryEvent ==
    \E inode \in Inodes, ns \in MountNamespaces, env \in Envs :
        LET r == ProcessLibraryEventOn(
                     [sw |-> sw, calls |-> <<>>, hooked |-> hookedLibs,
                      failed |-> failedLibs], inode, ns, env)
        IN  /\ nlib < MaxLibCalls
            /\ hookedLibs' = r.lm.hooked
            /\ failedLibs' = r.lm.failed
            /\ sw' = r.lm.sw
            /\ libLast' = [op |-> "ProcessLibraryEvent", inode |-> inode,
                           calls |-> r.lm.calls, ret |-> r.ret, ns |-> ns]
            /\ nlib' = nlib + 1
            /\ UNCHANGED notLib

\* LibraryManager.Clean.
Clean ==
    /\ nlib < MaxLibCalls
    /\ hookedLibs' = <<>>
    /\ failedLibs' = <<>>
    /\ libLast' = [op |-> "Clean", inode |-> 0, calls |-> <<>>, ret |-> "nil",
                   ns |-> 0]
    /\ nlib' = nlib + 1
    /\ UNCHANGED sw
    /\ UNCHANGED notLib

\* ------------------------------------- concurrent ProcessLibraryEvent
\* ProcessLibraryEvent called by several workers at once.  A call takes
\* lm.mu, makes its checks, attaches and records, and gives lm.mu back on
\* return; each of these is a step, and the steps of the workers interleave.

Workers == {1, 2}

\* The library events of the concurrent calls: two libraries, one of them
\* seen in the manager's namespace and in another one.
ConcEvents == {<<11, 1>>, <<11, 2>>, <<12, 2>>}

\* sync.Mutex.Lock that never waits.
lockNeverWaits(m) == TRUE

\* sync.Mutex.Lock returns when no one holds the mutex.
lockIsFree(m) == m = 0

AttachCalls(calls) ==
    Cardinality({i \in 1..Len(calls) :
                    calls[i] \in {"AttachSSLProbes:ok", "AttachSSLProbes:err"}})

\* A worker is handed a library event.
LibEnter(w) ==
    \E e \in ConcEvents :
        /\ wpc[w] = "idle"
        /\ ncall < MaxConcCalls
        /\ wpc' = [wpc EXCEPT ![w] = "lock"]
        /\ wev' = [wev EXCEPT ![w] = [inode |-> e[1], ns |-> e[2], skip |-> FALSE]]
        /\ ncall' = ncall + 1
        /\ UNCHANGED <<mu, attached>>
        /\ UNCHANGED notConc

\* lm.mu.Lock()
LibLock(w) ==
    /\ wpc[w] = "lock"
    /\ lockIsFree(mu)
    /\ mu' = w
    /\ wpc' = [wpc EXCEPT ![w] = "check"]
    /\ UNCHANGED <<wev, attached, ncall>>
    /\ UNCHANGED notConc

\* The checks of hookedLibs and failedLibs.
LibCheck(w) ==
    /\ wpc[w] = "check"
    /\ wev' = [wev EXCEPT ![w].skip =
                  alreadyHandled([hooked |-> hookedLibs, failed |-> failedLibs],
                                 wev[w].inode)]
    /\ wpc' = [wpc EXCEPT ![w] = "attach"]
    /\ UNCHANGED <<mu, attached, ncall>>
    /\ UNCHANGED notConc

\* The early return, or the attach and the recording of its outcome.
LibAttach(w) ==
    \E env \in Envs :
        LET lm == [sw |-> sw, calls |-> <<>>, hooked |-> hookedLibs,
                   failed |-> failedLibs]
            r == IF wev[w].skip THEN [lm |-> lm, ret |-> "nil"]
                 ELSE attachAndRecord(lm, wev[w].inode, wev[w].ns, env)
        IN  /\ wpc[w] = "attach"
            /\ hookedLibs' = r.lm.hooked
            /\ failedLibs' = r.lm.failed
            /\ sw' = r.lm.sw
            /\ libLast' = [op |-> "ProcessLibraryEvent", inode |-> wev[w].inode,
                           calls |-> r.lm.calls, ret |-> r.ret, ns |-> wev[w].ns]
            /\ attached' = [attached EXCEPT ![wev[w].inode] =
                               @ + AttachCalls(r.lm.calls)]
            /\ wpc' = [wpc EXCEPT ![w] = "unlock"]
            /\ UNCHANGED <<mu, wev, ncall, nlib>>
            /\ UNCHANGED notLibConc

\* The deferred lm.mu.Unlock(), and the return.
LibUnlock(w) ==
    /\ wpc[w] = "unlock"
    /\ mu' = 0
    /\ wpc' = [wpc EXCEPT ![w] = "idle"]
    /\ UNCHANGED <<wev, attached, ncall>>
    /\ UNCHANGED notConc

ConcInit ==
    /\ mu = 0
    /\ wpc = [w \in Workers |-> "idle"]
    /\ wev = [w \in Workers |-> [inode |-> 0, ns |-> 0, skip |-> FALSE]]
    /\ attached = [i \in Inodes |-> 0]
    /\ ncall = 0

\* ------------------------------------------------------------ byte strings
\* The buffers of the kernel programs are up to 64 KiB long.  A byte string
\* is written as its runs: <<Run("{", 1), Run("x", 6), Run("}", 1)>> is '{',
\* six bytes that are neither a brace nor white space, and '}'.  The bytes
\* told apart are '{', '}', white space (" ") and any other byte ("x").  No
\* run is empty and no two adjacent runs are of the same byte, so that equal
\* byte strings are equal sequences.

Run(ch, len) == [ch |-> ch, len |-> len]

RECURSIVE BSize(_)
BSize(b) == IF b = <<>> THEN 0 ELSE Head(b).len + BSize(Tail(b))

\* The first k bytes of b (all of b when it is shorter).
RECURSIVE BTake(_, _)
BTake(b, k) ==
    IF k <= 0 \/ b = <<>> THEN <<>>
    ELSE IF Head(b).len >= k THEN <<Run(Head(b).ch, k)>>
    ELSE <<Head(b)>> \o BTake(Tail(b), k - Head(b).len)

\* b without its first k bytes.
RECURSIVE BDrop(_, _)
BDrop(b, k) ==
    IF k <= 0 \/ b = <<>> THEN b
    ELSE IF Head(b).len > k THEN <<Run(Head(b).ch, Head(b).len - k)>> \o Tail(b)
    ELSE BDrop(Tail(b), k - Head(b).len)

\* a followed by b.
BCat(a, b) ==
    IF a = <<>> THEN b
    ELSE IF b = <<>> THEN a
    ELSE IF a[Len(a)].ch = Head(b).ch
    THEN SubSeq(a, 1, Len(a) - 1)
             \o <<Run(Head(b).ch, a[Len(a)].len + Head(b).len)>> \o Tail(b)
    ELSE a \o b

\* How many bytes of b are ch.
RECURSIVE BCount(_, _)
BCount(b, ch) ==
    IF b = <<>> THEN 0
    ELSE (IF Head(b).ch = ch THEN Head(b).len ELSE 0) + BCount(Tail(b), ch)

\* b cut into the pieces it is delivered in when each transfer is of at most
\* k bytes.
RECURSIVE Chunks(_, _)
Chunks(b, k) ==
    IF b = <<>> THEN <<>> ELSE <<BTake(b, k)>> \o Chunks(BDrop(b, k), k)

\* ------------------------------------------- kernel side JSON aggregation
\* The fexit/vfs_read program with the helpers of bpf/json.h.  One run of
\* the program is one step.  The LRU eviction of json_streams (256 entries)
\* is not reached by the bounded runs and is not modelled.

\* stream_key (pid, file_ptr): the streams of the runs.
StreamKeys == {1, 2}

NoState == [accumulated_size |-> -1]
NoData == [size |-> -1]

\* What the kernel helpers may answer in one run of the program:
\* bpf_probe_read of the caller's buffer and bpf_ringbuf_reserve.
KernelEnvs == [probeOK : BOOLEAN, reserveOK : BOOLEAN]

bracket_count_ctx(open_count, close_count, invalid) ==
    [open_count |-> open_count, close_count |-> close_count, invalid |-> invalid]

\* count_brackets_callback over the bytes b, a run of equal bytes at a time:
\* the counts stop at the first '}' that has no '{' before it.
RECURSIVE count_brackets_callback(_, _)
count_brackets_callback(ctx, b) ==
    IF b = <<>> \/ ctx.invalid THEN ctx
    ELSE IF Head(b).ch = "{"
    THEN count_brackets_callback(
             bracket_count_ctx(ctx.open_count + Head(b).len, ctx.close_count, FALSE),
             Tail(b))
    ELSE IF Head(b).ch = "}"
    THEN IF ctx.close_count + Head(b).len > ctx.open_count
         THEN bracket_count_ctx(ctx.open_count, ctx.open_count + 1, TRUE)
         ELSE count_brackets_callback(
                  bracket_count_ctx(ctx.open_count, ctx.close_count + Head(b).len, FALSE),
                  Tail(b))
    ELSE count_brackets_callback(ctx, Tail(b))

\* bpf_loop(iterations, count_brackets_callback, &ctx, 0): the callback reads
\* CHUNK_SIZE bytes per iteration, so it sees the first iterations *
\* CHUNK_SIZE bytes of the buffer.
bpf_loop(iterations, buf, size, env) ==
    IF ~env.probeOK THEN bracket_count_ctx(0, 0, TRUE)
    ELSE count_brackets_callback(bracket_count_ctx(0, 0, FALSE),
                                 BTake(buf, Min(size, iterations * CHUNK_SIZE)))

update_bracket_counts(state, buf, size, env) ==
    LET ctx == bpf_loop(CountIterations, buf, size, env)
    IN  IF ctx.invalid THEN state
        ELSE [state EXCEPT !.open_brackets = @ + ctx.open_count,
                           !.close_brackets = @ + ctx.close_count]

is_json_complete(state) ==
    state.open_brackets > 0 /\ state.open_brackets = state.close_brackets

\* [ok |-> FALSE] is the return of -1.
append_to_aggregation(state, buf, size, env) ==
    LET offset == state.accumulated_size
        remaining == MAX_AGGREGATED_SIZE - offset
        copy_size == IF size > remaining THEN remaining ELSE size
    IN  IF size = 0 \/ size > MAX_AGGREGATED_SIZE THEN [ok |-> FALSE, state |-> state]
        ELSE IF offset >= MAX_AGGREGATED_SIZE THEN [ok |-> FALSE, state |-> state]
        ELSE IF copy_size > MAX_AGGREGATED_SIZE - 1 THEN [ok |-> FALSE, state |-> state]
        ELSE IF ~env.probeOK THEN [ok |-> FALSE, state |-> state]
        ELSE [ok |-> TRUE,
              state |-> [state EXCEPT !.data = BCat(BTake(@, offset), BTake(buf, copy_size)),
                                      !.accumulated_size = offset + copy_size]]

\* The data_event submitted, NoData when the ring buffer has no room.
submit_json_event(key, state, env) ==
    IF ~env.reserveOK THEN NoData
    ELSE LET buf_size == Min(state.accumulated_size, MAX_BUF_SIZE)
         IN  [key |-> key, buf |-> BTake(state.data, buf_size),
              size |-> state.accumulated_size, buf_size |-> buf_size]

\* The offset of the first byte of b that is not white space, and the byte.
FirstNonSpace(b) ==
    IF b = <<>> THEN [ch |-> "", at |-> 0]
    ELSE IF Head(b).ch # " " THEN [ch |-> Head(b).ch, at |-> 0]
    ELSE IF Len(b) = 1 THEN [ch |-> "", at |-> Head(b).len]
    ELSE [ch |-> b[2].ch, at |-> Head(b).len]

is_json_data(buf, size, env) ==
    /\ size >= MinJsonSize
    /\ env.probeOK
    /\ FirstNonSpace(buf).at < MinJsonSize
    /\ FirstNonSpace(buf).ch = "{"
    /\ LET ctx == bpf_loop(ValidateIterations, buf, size, env)
       IN  /\ ~ctx.invalid
           /\ ctx.open_count > 0
           /\ ctx.open_count = ctx.close_count

\* One run of exit_vfs_read for the stream key: the json_streams map after
\* it and the event it submitted.
exit_vfs_read_on(streams, key, buf, ret, env) ==
    IF ret <= 0 THEN [ev |-> NoData, streams |-> streams]
    ELSE IF streams[key] = NoState
    THEN IF ~is_json_data(buf, ret, env) THEN [ev |-> NoData, streams |-> streams]
         ELSE LET new_state == [accumulated_size |-> 0, open_brackets |-> 0,
                                close_brackets |-> 0, data |-> <<>>]
                  a == append_to_aggregation(new_state, buf, ret, env)
                  counted == update_bracket_counts(a.state, buf, ret, env)
              IN  IF ~a.ok THEN [ev |-> NoData, streams |-> streams]
                  ELSE IF is_json_complete(counted)
                  THEN [ev |-> submit_json_event(key, counted, env),
                        streams |-> streams]
                  ELSE [ev |-> NoData, streams |-> [streams EXCEPT ![key] = counted]]
    ELSE LET a == append_to_aggregation(streams[key], buf, ret, env)
             counted == update_bracket_counts(a.state, buf, ret, env)
         IN  IF ~a.ok THEN [ev |-> NoData,
                            streams |-> [streams EXCEPT ![key] = NoState]]
             ELSE IF is_json_complete(counted)
             THEN [ev |-> submit_json_event(key, counted, env),
                   streams |-> [streams EXCEPT ![key] = NoState]]
             ELSE [ev |-> NoData, streams |-> [streams EXCEPT ![key] = counted]]

\* ------------------------------------------------------ what the streams carry
Bytes(ch, len) == <<Run(ch, len)>>

\* '{' and '}' around len - 2 other bytes.
Object(len) == BCat(Bytes("{", 1), BCat(Bytes("x", len - 2), Bytes("}", 1)))

\* {"a":{"b":1}}
DocNested ==
    BCat(Bytes("{", 1), BCat(Bytes("x", 4), BCat(Bytes("{", 1),
         BCat(Bytes("x", 5), Bytes("}", 2)))))

\* An object after a blank.
DocSpaced == BCat(Bytes(" ", 1), Object(8))

\* The objects that are delivered in chunks: of 8 bytes, nested, led by a
\* blank, of 1000 bytes, of 64 KiB, and of 64 KiB and one byte.
Docs == {Object(8), DocNested, DocSpaced, Object(1000), Object(65536), Object(65537)}

ChunkSizes == {1, 64, 4096, 65535}

\* {"jsonrpc":"2.0","id":   2,"method":"tools/call","params":{"name":"fs.read"   }}
ToolsCallFragments ==
    << BCat(Bytes("{", 1), Bytes("x", 21)),
       BCat(Bytes("x", 33), BCat(Bytes("{", 1), Bytes("x", 16))),
       Bytes("}", 2) >>

\* A read of 20 000 bytes whose first 16 KiB are a whole object and that
\* goes on with the end of another one, and a second read with an object.
TailThenObject ==
    << BCat(Object(16384), BCat(Bytes("x", 3615), Bytes("}", 1))),
       Object(8) >>

\* A read of 16 500 bytes whose first 16 KiB are a whole object and that
\* goes on with the start of another one, and a read with its closing '}'.
OpenThenClose ==
    << BCat(Object(16384), BCat(Bytes("{", 1), Bytes("x", 115))),
       Bytes("}", 1) >>

\* A read of 60 000 bytes whose first 16 KiB are a whole object and that
\* goes on with the end of another one, and a read with an object of 6000
\* bytes: 66 000 bytes in all.
OverflowingObject ==
    << BCat(Object(16384), BCat(Bytes("x", 43615), Bytes("}", 1))),
       Object(6000) >>

\* The transfers: what is written to the stream and the reads it arrives in.
\* out is what the program submitted for the transfer, and clean says that no
\* kernel helper failed in its runs.
Transfer(doc, chunk, rest) ==
    [doc |-> doc, chunk |-> chunk, rest |-> rest, out |-> <<>>, clean |-> TRUE]

RECURSIVE Join(_)
Join(frags) == IF frags = <<>> THEN <<>> ELSE BCat(Head(frags), Join(Tail(frags)))

Transfers ==
    {Transfer(d, c, Chunks(d, c)) :
        <<d, c>> \in {p \in Docs \X ChunkSizes : BSize(p[1]) <= p[2] * MaxFragments}}
    \cup {Transfer(d, BSize(d), <<d>>) : d \in Docs}
    \cup {Transfer(Join(f), 0, f) : f \in {ToolsCallFragments, TailThenObject, OpenThenClose,
                                               OverflowingObject}}

Idle == [doc |-> <<>>, chunk |-> 0, rest |-> <<>>, out |-> <<>>, clean |-> TRUE]

\* A writer starts a transfer on a stream that has none in progress.
StartTransfer(k) ==
    /\ feed[k].rest = <<>>
    /\ ndeliv < MaxTransfers
    /\ \E t \in Transfers : feed' = [feed EXCEPT ![k] = t]
    /\ ndeliv' = ndeliv + 1
    /\ ringbuf' = NoData
    /\ UNCHANGED <<json_streams, ktime, last_update_ns>>
    /\ UNCHANGED notAgg

\* The reader's vfs_read returns the next piece of the transfer, or
\* nothing (ret <= 0), and the fexit program runs.
exit_vfs_read(k) ==
    /\ feed[k].rest # <<>>
    /\ \E env \in KernelEnvs, got \in BOOLEAN :
        LET buf == Head(feed[k].rest)
            ret == IF got THEN BSize(buf) ELSE -1
            r == exit_vfs_read_on(json_streams, k, buf, ret, env)
        IN  /\ json_streams' = r.streams
            /\ ringbuf' = r.ev
            /\ feed' = [feed EXCEPT
                   ![k].rest = IF got THEN Tail(@) ELSE @,
                   ![k].out = IF r.ev = NoData THEN @ ELSE Append(@, r.ev.buf),
                   ![k].clean = @ /\ env.probeOK /\ env.reserveOK]
            /\ last_update_ns' = [last_update_ns EXCEPT
                   ![k] = IF r.streams[k] = NoState THEN -1
                          ELSE IF r.streams[k] # json_streams[k] THEN ktime
                          ELSE @]
    /\ UNCHANGED <<ndeliv, ktime>>
    /\ UNCHANGED notAgg

\* The kernel's clock goes on by a second.  Nothing in the programs runs on
\* time: last_update_ns is written (loader.go 317, 350) and never read, and
\* the LRU map gives an entry up only for want of room.
AggTick ==
    /\ ktime < MaxKtime
    /\ ktime' = ktime + 1
    /\ UNCHANGED <<json_streams, ringbuf, feed, ndeliv, last_update_ns>>
    /\ UNCHANGED notAgg

AggInit ==
    /\ json_streams = [k \in StreamKeys |-> NoState]
    /\ ringbuf = NoData
    /\ feed = [k \in StreamKeys |-> Idle]
    /\ ndeliv = 0
    /\ ktime = 0
    /\ last_update_ns = [k \in StreamKeys |-> -1]

\* One run of exit_vfs_write: it returns 0 when ret <= 0 and, the rest of its
\* body being commented out, returns 0 as well when data was written.
exit_vfs_write_on(streams, key, buf, ret, env) ==
    IF ret <= 0 THEN [ev |-> NoData, streams |-> streams]
    ELSE [ev |-> NoData, streams |-> streams]

\* A writer starts to write a transfer to a stream.
StartWrite(k) ==
    /\ wfeed[k].rest = <<>>
    /\ \E t \in Transfers : wfeed' = [wfeed EXCEPT ![k] = t]
    /\ UNCHANGED aggVars
    /\ UNCHANGED notWrite

\* The writer's vfs_write returns after the next piece of the transfer was
\* written, or with an error (ret <= 0), and the fexit program runs.
exit_vfs_write(k) ==
    /\ wfeed[k].rest # <<>>
    /\ \E env \in KernelEnvs, got \in BOOLEAN :
        LET buf == Head(wfeed[k].rest)
            ret == IF got THEN BSize(buf) ELSE 0
            r == exit_vfs_write_on(json_streams, k, buf, ret, env)
        IN  /\ json_streams' = r.streams
            /\ ringbuf' = r.ev
            /\ wfeed' = [wfeed EXCEPT
                   ![k].rest = IF got THEN Tail(@) ELSE @,
                   ![k].out = IF r.ev = NoData THEN @ ELSE Append(@, r.ev.buf),
                   ![k].clean = @ /\ env.probeOK /\ env.reserveOK]
    /\ UNCHANGED <<feed, ndeliv, ktime, last_update_ns>>
    /\ UNCHANGED notWrite

WriteInit == wfeed = [k \in StreamKeys |-> Idle]

\* ------------------------------------------------------------ Loader.Load
\* Load loads the objects, attaches the two fexit programs, opens the ring
\* buffer reader, discovers the SSL targets and attaches to each.  What the
\* kernel and the discovery answer is the environment of the call.

MaxTargets == 2

SSLTypeDynamic == 0
SSLTypeStatic == 1

\* A discovered target, with whether OpenExecutable and Uretprobe succeed
\* on it.
SSLTargets == [type : {SSLTypeDynamic, SSLTypeStatic}, open : BOOLEAN, attach : BOOLEAN]

TargetLists == UNION {[1..n -> SSLTargets] : n \in 0..MaxTargets}

LoadEnvs ==
    [objs : BOOLEAN, read : BOOLEAN, write : BOOLEAN, reader : BOOLEAN, discover : BOOLEAN,
     targets : TargetLists]

Link(prog, target) == [prog |-> prog, target |-> target]

\* attachToTarget on the i-th target: the links after it and its error.
attachToTarget(links, target, i) ==
    IF ~target.open THEN [err |-> "failed to open executable", links |-> links]
    ELSE IF ~target.attach
    THEN IF target.type = SSLTypeStatic
         THEN [err |-> "nil", links |-> links]
         ELSE [err |-> "failed to attach SSL_write uprobe", links |-> links]
    ELSE [err |-> "nil", links |-> Append(links, Link("SSL_write", i))]

\* The links after the loop over the first n targets; a target that fails
\* is logged and skipped.
RECURSIVE AttachTargets(_, _, _)
AttachTargets(links, targets, n) ==
    IF n = 0 THEN links
    ELSE attachToTarget(AttachTargets(links, targets, n - 1), targets[n], n).links

LoaderOf(objs, links, reader, err, env) ==
    [err |-> err, env |-> env, objs |-> objs, reader |-> reader, links |-> links,
     loaded |-> TRUE]

LoadOn(env) ==
    LET l1 == <<Link("exit_vfs_read", 0)>>
        l2 == Append(l1, Link("exit_vfs_write", 0))
    IN  IF ~env.objs
        THEN LoaderOf(FALSE, <<>>, FALSE, "failed to load eBPF objects", env)
        ELSE IF ~env.read
        THEN LoaderOf(TRUE, <<>>, FALSE, "failed to attach tracepoint", env)
        ELSE IF ~env.write
        THEN LoaderOf(TRUE, l1, FALSE, "failed to attach tracepoint", env)
        ELSE IF ~env.reader
        THEN LoaderOf(TRUE, l2, FALSE, "failed to create ring buffer reader", env)
        ELSE IF ~env.discover
        THEN LoaderOf(TRUE, l2, TRUE, "failed to discover SSL targets", env)
        ELSE LoaderOf(TRUE, AttachTargets(l2, env.targets, Len(env.targets)), TRUE, "nil", env)

NoEnv == [read |-> TRUE, objs |-> TRUE, write |-> TRUE, reader |-> TRUE,
          discover |-> TRUE, targets |-> <<>>]

Load ==
    /\ ~loader.loaded
    /\ \E env \in LoadEnvs : loader' = LoadOn(env)
    /\ UNCHANGED notLoad

LoadInit ==
    loader = [err |-> "nil", env |-> NoEnv, objs |-> FALSE, reader |-> FALSE,
              links |-> <<>>, loaded |-> FALSE]

\* ------------------------------------------------------- HTTP/1.1 bodies
\* ParseMessage on data whose header section has been read: IsChunked and
\* ContentLength are what the headers said, rest is data[bodyStart:].  Bytes
\* are one-character strings.

MaxPieces == 3

CR == "\r"
LF == "\n"

\* Pieces of a chunked body: chunks of one and two bytes, the last chunk,
\* a size that is not hexadecimal, a size with an extension, a negative
\* size, a chunk cut short, and bytes with no CRLF at all.
BodyPieces ==
    { <<"1", CR, LF, "x", CR, LF>>,
      <<"2", CR, LF, "x", "y", CR, LF>>,
      <<"0", CR, LF, CR, LF>>,
      <<"z", CR, LF, "x", CR, LF>>,
      <<"1", ";", "e", CR, LF, "x", CR, LF>>,
      <<"-", "1", CR, LF, "x", CR, LF>>,
      <<"2", CR, LF, "x">>,
      <<"x", "y">> }

RECURSIVE Bodies(_)
Bodies(n) ==
    IF n = 0 THEN {<<>>}
    ELSE Bodies(n - 1) \cup {b \o piece : b \in Bodies(n - 1), piece \in BodyPieces}

HexDigits == [c \in {"0", "1", "2"} |-> CASE c = "0" -> 0 [] c = "1" -> 1 [] c = "2" -> 2]

\* strconv.ParseInt(line, 16, 64): an optional sign and then one
\* hexadecimal digit or more.
RECURSIVE HexValue(_, _)
HexValue(digits, n) ==
    IF n = 0 THEN 0 ELSE 16 * HexValue(digits, n - 1) + HexDigits[digits[n]]

ParseInt16(line) ==
    LET signed == Len(line) > 0 /\ line[1] \in {"+", "-"}
        digits == IF signed THEN Tail(line) ELSE line
    IN  IF Len(digits) = 0 \/ \E i \in 1..Len(digits) : digits[i] \notin DOMAIN HexDigits
        THEN [v |-> 0, ok |-> FALSE]
        ELSE [v |-> IF signed /\ line[1] = "-" THEN 0 - HexValue(digits, Len(digits))
                    ELSE HexValue(digits, Len(digits)),
              ok |-> TRUE]

\* bytes.Index(data[offset:], "\r\n"), -1 when there is none.
IndexCRLF(data, offset) ==
    LET at == {i \in 0..(Len(data) - offset - 2) :
                 data[offset + i + 1] = CR /\ data[offset + i + 2] = LF}
    IN  IF at = {} THEN -1 ELSE CHOOSE i \in at : \A j \in at : i <= j

ChunkResult(body, err, panic) == [err |-> err, body |-> body, panic |-> panic]

\* The loop of parseChunkedBody from offset on, with result so far.  A
\* slice expression whose high bound is below its low bound panics.
RECURSIVE chunkLoop(_, _, _)
chunkLoop(data, offset, result) ==
    IF ~(offset < Len(data)) THEN ChunkResult(result, "nil", FALSE)
    ELSE LET lineEnd == IndexCRLF(data, offset)
             size == ParseInt16(SubSeq(data, offset + 1, offset + lineEnd))
             start == offset + lineEnd + 2
         IN  IF lineEnd = -1 THEN ChunkResult(result, "nil", FALSE)
             ELSE IF ~size.ok THEN ChunkResult(<<>>, "invalid chunk size", FALSE)
             ELSE IF size.v = 0 THEN ChunkResult(result, "nil", FALSE)
             ELSE IF start + size.v > Len(data) THEN ChunkResult(result, "nil", FALSE)
             ELSE IF start + size.v < start THEN ChunkResult(<<>>, "nil", TRUE)
             ELSE chunkLoop(data, start + size.v + 2,
                            result \o SubSeq(data, start + 1, start + size.v))

parseChunkedBody(data) == chunkLoop(data, 0, <<>>)

\* What ParseMessage returns: the message's body, or no return at all.
ParseMessageOn(IsChunked, ContentLength, rest) ==
    LET chunked == parseChunkedBody(rest)
        bodyEnd == IF ContentLength > Len(rest) THEN Len(rest) ELSE ContentLength
    IN  IF ~(0 < Len(rest)) THEN [returned |-> TRUE, Body |-> <<>>]
        ELSE IF IsChunked
        THEN IF chunked.panic THEN [returned |-> FALSE, Body |-> <<>>]
             ELSE IF chunked.err # "nil" THEN [returned |-> TRUE, Body |-> rest]
             ELSE [returned |-> TRUE, Body |-> chunked.body]
        ELSE IF ContentLength > 0
        THEN [returned |-> TRUE, Body |-> SubSeq(rest, 1, bodyEnd)]
        ELSE [returned |-> TRUE, Body |-> rest]

ParseMessage ==
    /\ ~httpMsg.called
    /\ \E IsChunked \in BOOLEAN, ContentLength \in {0, 3}, rest \in Bodies(MaxPieces) :
        httpMsg' = [msg |-> ParseMessageOn(IsChunked, ContentLength, rest),
                    rest |-> rest, IsChunked |-> IsChunked,
                    ContentLength |-> ContentLength, called |-> TRUE]
    /\ UNCHANGED notHttp

HttpInit ==
    httpMsg = [msg |-> [returned |-> FALSE, Body |-> <<>>], rest |-> <<>>,
               IsChunked |-> FALSE, ContentLength |-> 0, called |-> FALSE]

\* ------------------------------------------------- ring-buffer reader
\* runEBPFMode's loop, the goroutine Start launches (readFromRingBuffer) and
\* the deferred Loader.Close.  A goroutine's step is one select, one Read or
\* one send.  eventCh holds n events and has been closed `closes` times;
\* ecapture's processHTTPData sends on a channel of its own.

MaxRecords == 3
ChanCap == 2

RingInit ==
    rb = [pc |-> "select", n |-> 0, main |-> "loop", ctxDone |-> FALSE,
          readerClosed |-> FALSE, closes |-> 0, dropped |-> 0, produced |-> 0,
          httpN |-> 0, httpDropped |-> 0, httpProduced |-> 0]

\* The signal handler cancels the context.
Cancel ==
    /\ ~rb.ctxDone
    /\ rb' = [rb EXCEPT !.ctxDone = TRUE]
    /\ UNCHANGED notRing

\* The goroutine returns: its deferred function closes eventCh.
rbReturn(r) == [r EXCEPT !.pc = "done", !.closes = @ + 1]

\* select { case <-ctx.Done(): return; default: ... }
rbSelect ==
    /\ rb.pc = "select"
    /\ rb' = IF rb.ctxDone THEN rbReturn(rb) ELSE [rb EXCEPT !.pc = "read"]
    /\ UNCHANGED notRing

\* reader.Read() blocks until there is a record or the reader is closed.
\* A closed reader answers os.ErrClosed; otherwise the record is whole, or
\* cut short or unparsable, or Read fails for another reason.
rbReadNotInterrupted ==
    /\ rb.pc = "read"
    /\ ~rb.readerClosed
    /\ rb.produced < MaxRecords
    /\ \E whole \in BOOLEAN :
         rb' = [rb EXCEPT !.produced = @ + 1,
                          !.pc = IF whole THEN "send" ELSE "select"]
    /\ UNCHANGED notRing

rbRead ==
    /\ rb.pc = "read"
    /\ IF rb.readerClosed
       THEN rb' = rbReturn(rb)
       ELSE /\ rb.produced < MaxRecords
            /\ \E whole \in BOOLEAN :
                 rb' = [rb EXCEPT !.produced = @ + 1,
                                  !.pc = IF whole THEN "send" ELSE "select"]
    /\ UNCHANGED notRing

\* select { case l.eventCh <- event: case <-ctx.Done(): return; default:
\* warn }: one of the ready cases, the default when none is.
rbSendBlocking ==
    /\ rb.pc = "send"
    /\ \/ /\ rb.n < ChanCap
          /\ rb' = [rb EXCEPT !.n = @ + 1, !.pc = "select"]
       \/ /\ rb.ctxDone
          /\ rb' = rbReturn(rb)
    /\ UNCHANGED notRing

rbSend ==
    /\ rb.pc = "send"
    /\ \/ /\ rb.n < ChanCap
          /\ rb' = [rb EXCEPT !.n = @ + 1, !.pc = "select"]
       \/ /\ rb.ctxDone
          /\ rb' = rbReturn(rb)
       \/ /\ ~(rb.n < ChanCap) /\ ~rb.ctxDone
          /\ rb' = [rb EXCEPT !.dropped = @ + 1, !.pc = "select"]
    /\ UNCHANGED notRing

\* The main loop's select: the context is done, or an event is received,
\* or the channel is closed and empty.
mainSelect ==
    /\ rb.main = "loop"
    /\ \/ /\ rb.ctxDone
          /\ rb' = [rb EXCEPT !.main = "returned"]
       \/ /\ rb.n > 0
          /\ rb' = [rb EXCEPT !.n = @ - 1, !.main = "handling"]
       \/ /\ rb.n = 0 /\ rb.closes > 0
          /\ rb' = [rb EXCEPT !.main = "returned"]
    /\ UNCHANGED notRing

mainHandle ==
    /\ rb.main = "handling"
    /\ rb' = [rb EXCEPT !.main = "loop"]
    /\ UNCHANGED notRing

\* defer loader.Close(): the reader is closed.
RingClose ==
    /\ rb.main = "returned"
    /\ rb' = [rb EXCEPT !.main = "closed", !.readerClosed = TRUE]
    /\ UNCHANGED notRing

\* processHTTPData: a parsed event is sent if there is room, dropped if not.
processHTTPData ==
    /\ rb.httpProduced < MaxRecords
    /\ \E parsed \in BOOLEAN :
         rb' = IF ~parsed THEN [rb EXCEPT !.httpProduced = @ + 1]
               ELSE IF rb.httpN < ChanCap
               THEN [rb EXCEPT !.httpProduced = @ + 1, !.httpN = @ + 1]
               ELSE [rb EXCEPT !.httpProduced = @ + 1, !.httpDropped = @ + 1]
    /\ UNCHANGED notRing

\* ------------------------------------------------------------ TLS uprobes
\* The probes on SSL_new, SSL_free, SSL_do_handshake, SSL_read and SSL_write.
\* One run of a probe is one step.  The probes on SSL_read_ex and
\* SSL_write_ex differ from those on SSL_read and SSL_write in how the
\* length is passed and are not repeated here.

SSLs == {1, 2}
Pids == {1, 2}
NoSession == [is_active |-> -1]
NoSSL == 0
NoTlsEvent == [t |-> "none"]

\* identify_http_version (bpf/tls.h) classifies the first bytes of a payload;
\* a payload is written here as the classification it gets.
TlsBufs ==
    [http_version : {HTTP_VERSION_UNKNOWN, HTTP_VERSION_1, HTTP_VERSION_2},
     http_message_type : {HTTP_MESSAGE_REQUEST, HTTP_MESSAGE_RESPONSE, HTTP_MESSAGE_UNKNOWN}]

identify_http_version(buf) == buf

TlsStep == ntls < MaxTlsCalls /\ ntls' = ntls + 1

ssl_new_exit(ssl) ==
    /\ TlsStep
    /\ ssl_sessions' = [ssl_sessions EXCEPT ![ssl] =
           [is_active |-> 0, http_version |-> HTTP_VERSION_UNKNOWN]]
    /\ handshaken' = [handshaken EXCEPT ![ssl] = FALSE]
    /\ serverSide' = [serverSide EXCEPT ![ssl] = FALSE]
    /\ life' = [life EXCEPT ![ssl] = "live"]
    /\ tlsEv' = NoTlsEvent
    /\ UNCHANGED <<ssl_read_args, ssl_handshake_args, ssl_read_ex_args, tlsCount>>
    /\ UNCHANGED notTls

\* bpf_ringbuf_reserve may find the ring buffer full.
ssl_free_entry(ssl) ==
    /\ TlsStep
    /\ ssl_sessions' = [ssl_sessions EXCEPT ![ssl] = NoSession]
    /\ \E reserveOK \in BOOLEAN :
           tlsEv' = IF reserveOK THEN [t |-> "EVENT_TLS_FREE", ssl_ctx |-> ssl]
                    ELSE NoTlsEvent
    /\ life' = [life EXCEPT ![ssl] = "freed"]
    /\ UNCHANGED <<ssl_read_args, ssl_handshake_args, handshaken, serverSide,
                   ssl_read_ex_args, tlsCount>>
    /\ UNCHANGED notTls

ssl_do_handshake_entry(pid, ssl) ==
    /\ TlsStep
    /\ ssl_handshake_args' = [ssl_handshake_args EXCEPT ![pid] = ssl]
    /\ tlsEv' = NoTlsEvent
    /\ UNCHANGED <<ssl_sessions, ssl_read_args, handshaken, serverSide, life,
                   ssl_read_ex_args, tlsCount>>
    /\ UNCHANGED notTls

\* ssl_do_handshake_exit writing the entry whether or not there is one.
ssl_do_handshake_exit_creating(pid) ==
    /\ TlsStep
    /\ tlsEv' = NoTlsEvent
    /\ \E ret \in {-1, 0, 1} :
        LET ssl == ssl_handshake_args[pid]
        IN  IF ssl = NoSSL
            THEN UNCHANGED <<ssl_sessions, ssl_handshake_args, handshaken>>
            ELSE /\ ssl_handshake_args' = [ssl_handshake_args EXCEPT ![pid] = NoSSL]
                 /\ handshaken' = [handshaken EXCEPT ![ssl] = @ \/ ret = 1]
                 /\ ssl_sessions' =
                        IF ret = 1
                        THEN [ssl_sessions EXCEPT ![ssl] =
                                 [is_active |-> 1,
                                  http_version |->
                                      IF @ = NoSession THEN HTTP_VERSION_UNKNOWN
                                      ELSE @.http_version]]
                        ELSE ssl_sessions
    /\ UNCHANGED <<ssl_read_args, serverSide, life, ssl_read_ex_args, tlsCount>>
    /\ UNCHANGED notTls

ssl_do_handshake_exit(pid) ==
    /\ TlsStep
    /\ tlsEv' = NoTlsEvent
    /\ \E ret \in {-1, 0, 1} :
        LET ssl == ssl_handshake_args[pid]
        IN  IF ssl = NoSSL
            THEN UNCHANGED <<ssl_sessions, ssl_handshake_args, handshaken>>
            ELSE /\ ssl_handshake_args' = [ssl_handshake_args EXCEPT ![pid] = NoSSL]
                 /\ handshaken' = [handshaken EXCEPT ![ssl] = @ \/ ret = 1]
                 /\ ssl_sessions' =
                        IF ret = 1 /\ ssl_sessions[ssl] # NoSession
                        THEN [ssl_sessions EXCEPT ![ssl].is_active = 1]
                        ELSE ssl_sessions
    /\ UNCHANGED <<ssl_read_args, serverSide, life, ssl_read_ex_args, tlsCount>>
    /\ UNCHANGED notTls

ssl_read_entry(pid, ssl) ==
    /\ TlsStep
    /\ ssl_read_args' = [ssl_read_args EXCEPT ![pid] = ssl]
    /\ tlsEv' = NoTlsEvent
    /\ UNCHANGED <<ssl_sessions, ssl_handshake_args, handshaken, serverSide, life,
                   ssl_read_ex_args, tlsCount>>
    /\ UNCHANGED notTls

\* Byte counts.  A count is q * 65 536 + r with 0 <= r < 65 536, so that
\* counts beyond 32 bits can be written; a negative int has q < 0.
Wide(q, r) == [r |-> r, q |-> q]

WideZero == Wide(0, 0)
WideMaxBuf == Wide(MAX_BUF_SIZE \div 65536, MAX_BUF_SIZE % 65536)

WideLeq(a, b) == a.q < b.q \/ (a.q = b.q /\ a.r <= b.r)

\* The conversion to __u32, and `size &= 0x7FFFFFFF` on a __u32.
U32(n) == Wide(n.q % 65536, n.r)
Mask31(n) == Wide(n.q % 32768, n.r)

\* What `int ret` / `int num` and what `size_t num` / `*readbytes` can be.
IntCounts == {Wide(-1, 0), WideZero, Wide(0, 1), Wide(1, 1), Wide(32767, 65535)}

SizeCounts ==
    {WideZero, Wide(0, 1), Wide(1, 0), Wide(1, 1), Wide(65535, 65535), Wide(65536, 0),
     Wide(65536, 5), Wide(65537, 0)}

\* event->size and event->buf_size as SSL_read and SSL_write set them from
\* the int, and as SSL_read_ex and SSL_write_ex set them from the size_t.
tls_sizes(count, ex) ==
    IF ex
    THEN [size |-> U32(count),
          buf_size |-> U32(IF ~WideLeq(count, WideMaxBuf) THEN WideMaxBuf ELSE count)]
    ELSE LET size == Mask31(U32(count))
         IN  [size |-> size,
              buf_size |-> IF ~WideLeq(size, WideMaxBuf) THEN WideMaxBuf ELSE size]

\* What the payload probes do once they have the SSL pointer, the bytes and
\* their number: the ssl_sessions map after it and the event submitted.
\* ignored is the kind of message the direction does not carry; skip is the
\* probe's own test on the number.
tls_payload(sessions, ssl, buf, count, ex, skip, ignored, event_type, ok) ==
    LET session == sessions[ssl]
        id == identify_http_version(buf)
        nothing == [ev |-> NoTlsEvent, sessions |-> sessions, server |-> FALSE]
    IN  IF skip THEN nothing
        ELSE IF session = NoSession THEN nothing
        ELSE IF session.http_version = HTTP_VERSION_UNKNOWN
                /\ id.http_version = HTTP_VERSION_UNKNOWN THEN nothing
        ELSE IF session.http_version = HTTP_VERSION_UNKNOWN
                /\ id.http_message_type = ignored
        THEN [ev |-> NoTlsEvent, sessions |-> sessions, server |-> TRUE]
        ELSE LET version == IF session.http_version = HTTP_VERSION_UNKNOWN
                            THEN id.http_version ELSE session.http_version
                 after == [sessions EXCEPT ![ssl].http_version = version]
             IN  [ev |-> IF ok
                         THEN [t |-> event_type, size |-> tls_sizes(count, ex).size,
                               buf_size |-> tls_sizes(count, ex).buf_size,
                               http_version |-> version, ssl_ctx |-> ssl]
                         ELSE NoTlsEvent,
                  sessions |-> after, server |-> FALSE]

ssl_read_exit(pid) ==
    /\ TlsStep
    /\ \E ret \in IntCounts, buf \in TlsBufs, ok \in BOOLEAN :
        LET ssl == ssl_read_args[pid]
            r == tls_payload(ssl_sessions, ssl, buf, ret, FALSE, WideLeq(ret, WideZero),
                             HTTP_MESSAGE_REQUEST, "EVENT_TLS_PAYLOAD_RECV", ok)
        IN  IF ssl = NoSSL
            THEN /\ tlsEv' = NoTlsEvent
                 /\ UNCHANGED <<ssl_sessions, ssl_read_args, serverSide, tlsCount>>
            ELSE /\ ssl_read_args' = [ssl_read_args EXCEPT ![pid] = NoSSL]
                 /\ ssl_sessions' = r.sessions
                 /\ tlsEv' = r.ev
                 /\ tlsCount' = ret
                 /\ serverSide' = [serverSide EXCEPT ![ssl] = @ \/ r.server]
    /\ UNCHANGED <<ssl_handshake_args, handshaken, life, ssl_read_ex_args>>
    /\ UNCHANGED notTls

ssl_write_entry(ssl) ==
    /\ TlsStep
    /\ \E num \in IntCounts, buf \in TlsBufs, ok \in BOOLEAN :
        LET r == tls_payload(ssl_sessions, ssl, buf, num, FALSE, WideLeq(num, WideZero),
                             HTTP_MESSAGE_RESPONSE, "EVENT_TLS_PAYLOAD_SEND", ok)
        IN  /\ ssl_sessions' = r.sessions
            /\ tlsEv' = r.ev
            /\ tlsCount' = num
            /\ serverSide' = [serverSide EXCEPT ![ssl] = @ \/ r.server]
    /\ UNCHANGED <<ssl_read_args, ssl_handshake_args, handshaken, life, ssl_read_ex_args>>
    /\ UNCHANGED notTls

ssl_read_ex_entry(pid, ssl) ==
    /\ TlsStep
    /\ ssl_read_ex_args' = [ssl_read_ex_args EXCEPT ![pid] = ssl]
    /\ tlsEv' = NoTlsEvent
    /\ UNCHANGED <<ssl_sessions, ssl_read_args, ssl_handshake_args, handshaken, serverSide,
                   life, tlsCount>>
    /\ UNCHANGED notTls

\* SSL_read_ex returned ret and stored the number of bytes it read where
\* readbytes points; the probe reads that number (actual_read stays 0 when
\* the pointer is NULL or cannot be read) and does not test it.
ssl_read_ex_exit(pid) ==
    /\ TlsStep
    /\ \E ret \in {0, 1}, readbytes \in SizeCounts \ {WideZero}, readOK \in BOOLEAN,
          buf \in TlsBufs, ok \in BOOLEAN :
        LET ssl == ssl_read_ex_args[pid]
            actual_read == IF readOK THEN readbytes ELSE WideZero
            r == tls_payload(ssl_sessions, ssl, buf, actual_read, TRUE, ret # 1,
                             HTTP_MESSAGE_REQUEST, "EVENT_TLS_PAYLOAD_RECV", ok)
        IN  IF ssl = NoSSL
            THEN /\ tlsEv' = NoTlsEvent
                 /\ UNCHANGED <<ssl_sessions, ssl_read_ex_args, serverSide, tlsCount>>
            ELSE /\ ssl_read_ex_args' = [ssl_read_ex_args EXCEPT ![pid] = NoSSL]
                 /\ ssl_sessions' = r.sessions
                 /\ tlsEv' = r.ev
                 /\ tlsCount' = IF ret = 1 THEN readbytes ELSE WideZero
                 /\ serverSide' = [serverSide EXCEPT ![ssl] = @ \/ r.server]
    /\ UNCHANGED <<ssl_read_args, ssl_handshake_args, handshaken, life>>
    /\ UNCHANGED notTls

ssl_write_ex_entry(ssl) ==
    /\ TlsStep
    /\ \E num \in SizeCounts, buf \in TlsBufs, ok \in BOOLEAN :
        LET r == tls_payload(ssl_sessions, ssl, buf, num, TRUE, WideLeq(num, WideZero),
                             HTTP_MESSAGE_RESPONSE, "EVENT_TLS_PAYLOAD_SEND", ok)
        IN  /\ ssl_sessions' = r.sessions
            /\ tlsEv' = r.ev
            /\ tlsCount' = num
            /\ serverSide' = [serverSide EXCEPT ![ssl] = @ \/ r.server]
    /\ UNCHANGED <<ssl_read_args, ssl_handshake_args, handshaken, life, ssl_read_ex_args>>
    /\ UNCHANGED notTls

TlsInit ==
    /\ ssl_sessions = [s \in SSLs |-> NoSession]
    /\ ssl_read_args = [p \in Pids |-> NoSSL]
    /\ ssl_handshake_args = [p \in Pids |-> NoSSL]
    /\ tlsEv = NoTlsEvent
    /\ handshaken = [s \in SSLs |-> FALSE]
    /\ ntls = 0
    /\ serverSide = [s \in SSLs |-> FALSE]
    /\ life = [s \in SSLs |-> "none"]
    /\ ssl_read_ex_args = [p \in Pids |-> NoSSL]
    /\ tlsCount = WideZero

\* ------------------------------------------- threads inside SSL calls
\* bpf_get_current_pid_tgid() holds the process id in its high 32 bits and
\* the thread id in its low 32 bits.  Every probe keeps `>> 32` of it, the
\* process id, as the key of ssl_read_args, ssl_read_ex_args and
\* ssl_handshake_args.  Threads 1 and 2 belong to process 1, thread 3 to
\* process 2.
Tids == {1, 2, 3}
NoTid == 0

bpf_get_current_pid_tgid(tid) == [tid |-> tid, tgid |-> IF tid = 3 THEN 2 ELSE 1]

\* `__u32 pid = bpf_get_current_pid_tgid() >> 32;`
PidKey(tid) == bpf_get_current_pid_tgid(tid).tgid

SSLFns == {"SSL_read", "SSL_read_ex", "SSL_do_handshake"}

\* thr.call[t] is the call thread t is inside (fn "none" when in none) with
\* the SSL context it passed; thr.by[fn][pid] is the thread whose entry probe
\* wrote the entry of fn's map under pid; thr.last describes the last return
\* probe: the thread, its function, the context its own entry recorded (own),
\* the context the return probe found (used) and the thread that wrote it.
NoCall == [ssl |-> NoSSL, fn |-> "none"]
NoReturn == [tid |-> NoTid, fn |-> "none", own |-> NoSSL, used |-> NoSSL, by |-> NoTid]

ThrInit ==
    thr = [last |-> NoReturn, call |-> [t \in Tids |-> NoCall],
           by |-> [f \in SSLFns |-> [p \in Pids |-> NoTid]]]

thrEnter(tid, fn, ssl) ==
    [thr EXCEPT !.call[tid] = [ssl |-> ssl, fn |-> fn],
                !.by[fn][PidKey(tid)] = tid]

thrReturn(tid, fn, used) ==
    [thr EXCEPT !.call[tid] = NoCall,
                !.by[fn][PidKey(tid)] = IF used = NoSSL THEN @ ELSE NoTid,
                !.last = [tid |-> tid, fn |-> fn, own |-> thr.call[tid].ssl,
                          used |-> used,
                          by |-> IF used = NoSSL THEN NoTid
                                 ELSE thr.by[fn][PidKey(tid)]]]

\* The return values the threads' calls give.
ThrCounts == {WideZero, Wide(0, 1)}

\* A thread calls SSL_read(ssl, buf, num): ssl_read_entry runs in it.
thread_ssl_read_entry(tid, ssl) ==
    /\ TlsStep
    /\ thr.call[tid] = NoCall
    /\ ssl_read_args' = [ssl_read_args EXCEPT ![PidKey(tid)] = ssl]
    /\ tlsEv' = NoTlsEvent
    /\ thr' = thrEnter(tid, "SSL_read", ssl)
    /\ UNCHANGED <<ssl_sessions, ssl_handshake_args, handshaken, serverSide, life,
                   ssl_read_ex_args, tlsCount>>
    /\ UNCHANGED notThr

\* The thread's SSL_read returns: ssl_read_exit runs in it.
thread_ssl_read_exit(tid) ==
    /\ TlsStep
    /\ thr.call[tid].fn = "SSL_read"
    /\ \E ret \in ThrCounts, buf \in TlsBufs, ok \in BOOLEAN :
        LET pid == PidKey(tid)
            ssl == ssl_read_args[pid]
            r == tls_payload(ssl_sessions, ssl, buf, ret, FALSE, WideLeq(ret, WideZero),
                             HTTP_MESSAGE_REQUEST, "EVENT_TLS_PAYLOAD_RECV", ok)
        IN  /\ thr' = thrReturn(tid, "SSL_read", ssl)
            /\ IF ssl = NoSSL
               THEN /\ tlsEv' = NoTlsEvent
                    /\ UNCHANGED <<ssl_sessions, ssl_read_args, serverSide, tlsCount>>
               ELSE /\ ssl_read_args' = [ssl_read_args EXCEPT ![pid] = NoSSL]
                    /\ ssl_sessions' = r.sessions
                    /\ tlsEv' = r.ev
                    /\ tlsCount' = ret
                    /\ serverSide' = [serverSide EXCEPT ![ssl] = @ \/ r.server]
    /\ UNCHANGED <<ssl_handshake_args, handshaken, life, ssl_read_ex_args>>
    /\ UNCHANGED notThr

\* A thread calls SSL_read_ex(ssl, buf, num, readbytes).
thread_ssl_read_ex_entry(tid, ssl) ==
    /\ TlsStep
    /\ thr.call[tid] = NoCall
    /\ ssl_read_ex_args' = [ssl_read_ex_args EXCEPT ![PidKey(tid)] = ssl]
    /\ tlsEv' = NoTlsEvent
    /\ thr' = thrEnter(tid, "SSL_read_ex", ssl)
    /\ UNCHANGED <<ssl_sessions, ssl_read_args, ssl_handshake_args, handshaken, serverSide,
                   life, tlsCount>>
    /\ UNCHANGED notThr

thread_ssl_read_ex_exit(tid) ==
    /\ TlsStep
    /\ thr.call[tid].fn = "SSL_read_ex"
    /\ \E ret \in {0, 1}, readbytes \in ThrCounts \ {WideZero}, buf \in TlsBufs,
          ok \in BOOLEAN :
        LET pid == PidKey(tid)
            ssl == ssl_read_ex_args[pid]
            r == tls_payload(ssl_sessions, ssl, buf, readbytes, TRUE, ret # 1,
                             HTTP_MESSAGE_REQUEST, "EVENT_TLS_PAYLOAD_RECV", ok)
        IN  /\ thr' = thrReturn(tid, "SSL_read_ex", ssl)
            /\ IF ssl = NoSSL
               THEN /\ tlsEv' = NoTlsEvent
                    /\ UNCHANGED <<ssl_sessions, ssl_read_ex_args, serverSide, tlsCount>>
               ELSE /\ ssl_read_ex_args' = [ssl_read_ex_args EXCEPT ![pid] = NoSSL]
                    /\ ssl_sessions' = r.sessions
                    /\ tlsEv' = r.ev
                    /\ tlsCount' = IF ret = 1 THEN readbytes ELSE WideZero
                    /\ serverSide' = [serverSide EXCEPT ![ssl] = @ \/ r.server]
    /\ UNCHANGED <<ssl_read_args, ssl_handshake_args, handshaken, life>>
    /\ UNCHANGED notThr

\* A thread calls SSL_do_handshake(ssl).
thread_ssl_do_handshake_entry(tid, ssl) ==
    /\ TlsStep
    /\ thr.call[tid] = NoCall
    /\ ssl_handshake_args' = [ssl_handshake_args EXCEPT ![PidKey(tid)] = ssl]
    /\ tlsEv' = NoTlsEvent
    /\ thr' = thrEnter(tid, "SSL_do_handshake", ssl)
    /\ UNCHANGED <<ssl_sessions, ssl_read_args, handshaken, serverSide, life,
                   ssl_read_ex_args, tlsCount>>
    /\ UNCHANGED notThr

thread_ssl_do_handshake_exit(tid) ==
    /\ TlsStep
    /\ thr.call[tid].fn = "SSL_do_handshake"
    /\ tlsEv' = NoTlsEvent
    /\ \E ret \in {-1, 0, 1} :
        LET pid == PidKey(tid)
            ssl == ssl_handshake_args[pid]
        IN  /\ thr' = thrReturn(tid, "SSL_do_handshake", ssl)
            /\ IF ssl = NoSSL
               THEN UNCHANGED <<ssl_sessions, ssl_handshake_args, handshaken>>
               ELSE /\ ssl_handshake_args' = [ssl_handshake_args EXCEPT ![pid] = NoSSL]
                    /\ handshaken' = [handshaken EXCEPT ![ssl] = @ \/ ret = 1]
                    /\ ssl_sessions' =
                           IF ret = 1 /\ ssl_sessions[ssl] # NoSession
                           THEN [ssl_sessions EXCEPT ![ssl].is_active = 1]
                           ELSE ssl_sessions
    /\ UNCHANGED <<ssl_read_args, serverSide, life, ssl_read_ex_args, tlsCount>>
    /\ UNCHANGED notThr

\* ------------------------------------------------ concurrent parser calls
\* Goroutines inside ParseDataStdio / ParseDataHttp at the same time, each
\* with an event that carries the same bytes (one notification) seen on its
\* own hop.  The parser has no lock of its own: a step is one call on the
\* thread-safe seenHashCache, or one access to the Hops slice of a
\* messageMetadata, which nothing guards.  A messageMetadata is an object
\* on the heap: heap.objs[i] is the chain of the i-th one made, heap.cur the
\* one seenHashCache holds for the hash (0 when none).

Goroutines == {1, 2}
ConcPayload == Notif

\* The events of the concurrent calls: stdio on each hop, HTTP on each session.
ConcObs ==
    {[from |-> h[1], to |-> h[2], t |-> "stdio", pid |-> 0, ssl |-> 0,
      kind |-> "fs", buf |-> <<ConcPayload>>] : h \in StdioHops}
    \cup {[from |-> 0, to |-> 0, t |-> "http", pid |-> x.pid, ssl |-> x.ssl,
           kind |-> "request", buf |-> <<ConcPayload>>] : x \in HttpSessions}

HopOf(ev) == IF ev.t = "http" THEN Hop(ev.pid, ev.pid) ELSE Hop(ev.from, ev.to)

AtRest == [pc |-> "idle", ev |-> NoEvent, hops |-> <<>>, obj |-> 0]

\* ParseDataStdio / ParseDataHttp is entered with an event.
pcEnter(w) ==
    /\ pw[w].pc = "idle"
    /\ nobs < MaxParCalls
    /\ \E ev \in ConcObs :
          /\ pw' = [pw EXCEPT ![w] = [pc |-> "get", ev |-> ev, hops |-> <<>>,
                                      obj |-> 0]]
          /\ phops' = phops \cup {HopOf(ev)}
    /\ nobs' = nobs + 1
    /\ UNCHANGED <<seenHashCache, requestIDCache, published, last, heap, cpub>>
    /\ UNCHANGED notParserPc

\* getOrCreateMessageMetadata: seenHashCache.Get(hash).
pcGet(w) ==
    /\ pw[w].pc = "get"
    /\ IF Live(seenHashCache, calculateHash(ConcPayload), seenHashCacheTTL)
       THEN /\ pw' = [pw EXCEPT ![w].pc = "check", ![w].obj = heap.cur]
            /\ UNCHANGED <<seenHashCache, heap>>
       ELSE /\ pw' = [pw EXCEPT ![w].pc = "add"]
            /\ UNCHANGED <<seenHashCache, heap>>
    /\ UNCHANGED <<requestIDCache, published, last, nobs, cpub, phops>>
    /\ UNCHANGED notParserPc

\* getOrCreateMessageMetadata: the new metadata and seenHashCache.Add, which
\* replaces whatever the cache holds for the hash.
pcAdd(w) ==
    /\ pw[w].pc = "add"
    /\ seenHashCache' = CachePut(seenHashCache, calculateHash(ConcPayload),
           [age |-> 0, hops |-> <<HopOf(pw[w].ev)>>, emitted |-> 0])
    /\ heap' = [objs |-> Append(heap.objs, <<HopOf(pw[w].ev)>>),
                cur |-> Len(heap.objs) + 1]
    /\ pw' = [pw EXCEPT ![w].pc = "publish", ![w].obj = Len(heap.objs) + 1]
    /\ UNCHANGED <<requestIDCache, published, last, nobs, cpub, phops>>
    /\ UNCHANGED notParserPc

\* AddHop: the search of pc.Hops for the hop, and the read of pc.Hops by
\* append.  The call returns (not a new message) when the hop is there.
pcCheck(w) ==
    /\ pw[w].pc = "check"
    /\ LET Hops == heap.objs[pw[w].obj]
       IN  IF AddHop(Hops, HopOf(pw[w].ev)) = Hops
           THEN pw' = [pw EXCEPT ![w] = AtRest]
           ELSE pw' = [pw EXCEPT ![w].pc = "append", ![w].hops = Hops]
    /\ UNCHANGED <<seenHashCache, requestIDCache, published, last, nobs, heap, cpub, phops>>
    /\ UNCHANGED notParserPc

\* AddHop: pc.Hops = append(pc.Hops, hop), the write: the slice that was read
\* with the hop after it, whatever was written in between.
pcAppend(w) ==
    /\ pw[w].pc = "append"
    /\ LET Hops == Append(pw[w].hops, HopOf(pw[w].ev))
       IN  /\ heap' = [heap EXCEPT !.objs[pw[w].obj] = Hops]
           /\ seenHashCache' =
                  IF pw[w].obj = heap.cur
                  THEN [seenHashCache EXCEPT ![calculateHash(ConcPayload)].hops = Hops]
                  ELSE seenHashCache
    /\ pw' = [pw EXCEPT ![w] = AtRest]
    /\ UNCHANGED <<requestIDCache, published, last, nobs, cpub, phops>>
    /\ UNCHANGED notParserPc

\* The rest of the round for a new message, down to eventBus.Publish.
pcPublish(w) ==
    /\ pw[w].pc = "publish"
    /\ LET r == afterMetadata(ParserState(seenHashCache, requestIDCache, <<>>, <<>>),
                              pw[w].ev, ConcPayload, calculateHash(ConcPayload), TRUE)
       IN  /\ seenHashCache' = r.st.seen
           /\ requestIDCache' = r.st.req
           /\ cpub' = cpub \o [i \in 1..Len(r.st.pub) |->
                                  [msg |-> r.st.pub[i].msg, obj |-> pw[w].obj]]
    /\ pw' = [pw EXCEPT ![w] = AtRest]
    /\ UNCHANGED <<published, last, nobs, heap, phops>>
    /\ UNCHANGED notParserPc

PcInit ==
    /\ pw = [w \in Goroutines |-> AtRest]
    /\ heap = [objs |-> <<>>, cur |-> 0]
    /\ cpub = <<>>
    /\ phops = {}

\* --------------------------------------------------------- Close, Restore
\* Close of the MountNamespaceSwitcher, of the LibraryManager and of the
\* Loader (the userland build), and Restore called on the switcher itself.
\* The cleanup goroutine of the switcher ends when its context is cancelled
\* and closes cleanupDone itself, so Close waits for it the first time and
\* finds the channel closed afterwards.

\* syscall.Close(fd) for each fd of fds: the descriptors left, and those that
\* were not open (EBADF).
closeFds(open, fds) ==
    [open |-> [fd \in DOMAIN open \ fds |-> open[fd]], bad |-> fds \ DOMAIN open]

\* MountNamespaceSwitcher.Close: the home descriptor and those of the cache.
MsCloseOn(s) ==
    LET c == closeFds(s.open, {originalFd} \cup {s.cache[n] : n \in DOMAIN s.cache})
    IN  [s |-> [s EXCEPT !.open = c.open, !.cache = <<>>],
         ret |-> IF c.bad = {} THEN "nil" ELSE "err",
         again |-> c.bad]

Counted(op) == [ncl EXCEPT ![op] = @ + 1]

MsClose ==
    /\ ncl["ms.Close"] < MaxCloses
    /\ LET r == MsCloseOn(sw)
       IN  /\ sw' = r.s
           /\ swLast' = [op |-> "ms.Close", ret |-> r.ret, again |-> r.again,
                         nth |-> ncl["ms.Close"] + 1, setns |-> FALSE,
                         wasOpen |-> originalFd \in DOMAIN sw.open, prevOK |-> FALSE]
    /\ ncl' = Counted("ms.Close")
    /\ UNCHANGED <<lmSw, eventCh>>
    /\ UNCHANGED notSw

\* LibraryManager.Close: the switcher is closed and forgotten.
LmClose ==
    /\ ncl["lm.Close"] < MaxCloses
    /\ LET r == IF lmSw THEN MsCloseOn(sw) ELSE [s |-> sw, ret |-> "nil", again |-> {}]
       IN  /\ sw' = r.s
           /\ swLast' = [op |-> "lm.Close", ret |-> r.ret, again |-> r.again,
                         nth |-> ncl["lm.Close"] + 1, setns |-> FALSE,
                         wasOpen |-> originalFd \in DOMAIN sw.open, prevOK |-> FALSE]
    /\ lmSw' = FALSE
    /\ ncl' = Counted("lm.Close")
    /\ UNCHANGED eventCh
    /\ UNCHANGED notSw

\* Loader.Close of the userland build: close(l.eventCh), which panics on a
\* closed channel.
LoaderClose ==
    /\ ncl["Loader.Close"] < MaxCloses
    /\ eventCh' = "closed"
    /\ swLast' = [op |-> "Loader.Close",
                  ret |-> IF eventCh = "open" THEN "nil" ELSE "panic",
                  again |-> IF eventCh = "open" THEN {} ELSE {"eventCh"},
                  nth |-> ncl["Loader.Close"] + 1, setns |-> FALSE,
                  wasOpen |-> originalFd \in DOMAIN sw.open, prevOK |-> FALSE]
    /\ ncl' = Counted("Loader.Close")
    /\ UNCHANGED <<sw, lmSw>>
    /\ UNCHANGED notSw

\* MountNamespaceSwitcher.Restore called on the switcher.  setns fails on a
\* descriptor that is closed, and may fail on one that is open.
MsRestore ==
    /\ ncl["Restore"] < MaxCloses
    /\ \E allowed \in BOOLEAN :
        LET setnsOK == allowed /\ originalFd \in DOMAIN sw.open
            r == Restore(sw, setnsOK)
        IN  /\ sw' = r.s
            /\ swLast' = [op |-> "Restore", ret |-> IF r.ok THEN "nil" ELSE "err",
                          again |-> {}, nth |-> ncl["Restore"] + 1, setns |-> setnsOK,
                          wasOpen |-> originalFd \in DOMAIN sw.open,
                          prevOK |-> ncl["Restore ok"] > 0]
            /\ ncl' = [Counted("Restore") EXCEPT !["Restore ok"] = IF r.ok THEN @ + 1 ELSE @]
    /\ UNCHANGED <<lmSw, eventCh>>
    /\ UNCHANGED notSw

\* The library manager at work before anything is closed.
PriorUse ==
    /\ nlib < MaxPriorCalls
    /\ \A op \in DOMAIN ncl : ncl[op] = 0
    /\ ProcessLibraryEvent

CloseInit ==
    /\ lmSw = TRUE
    /\ eventCh = "open"
    /\ swLast = [op |-> "New", ret |-> "nil", again |-> {}, nth |-> 0, setns |-> FALSE,
                 wasOpen |-> TRUE, prevOK |-> FALSE]
    /\ ncl = [op \in {"ms.Close", "lm.Close", "Loader.Close", "Restore", "Restore ok"} |-> 0]

\* -------------------------------------------- the switcher and its cleanup
\* The switcher called directly: SwitchTo and the Restore that matches it,
\* the cleanup goroutine NewMountNamespaceSwitcher starts, and Close.  nsw.s
\* is the switcher as above; bg is where the goroutine is, ticked whether
\* ticker.C holds a tick, cancelled whether cleanupCancel was called,
\* closing where Close is, switched whether a SwitchTo awaits its Restore.

MaxNsCalls == 3

NsInit ==
    nsw = [last |-> [op |-> "New", ok |-> TRUE, cachedOK |-> FALSE,
                     freshOK |-> FALSE, findOK |-> FALSE, ns |-> 0, closed |-> {},
                     had |-> FALSE],
           s |-> [cache |-> <<>>, open |-> [fd \in {originalFd} |-> HomeNS],
                  lockDepth |-> 0, curNS |-> HomeNS],
           cancelled |-> FALSE, n |-> 0, bg |-> "select", ticked |-> FALSE,
           closing |-> "idle", switched |-> FALSE]

NsLast(op, ns, ok, env, closed) ==
    [op |-> op, ok |-> ok, cachedOK |-> env.cachedOK, freshOK |-> env.freshOK,
     findOK |-> env.findOK, ns |-> ns, closed |-> closed,
     had |-> ns \in DOMAIN nsw.s.cache]

NoNsEnv == [cachedOK |-> FALSE, freshOK |-> FALSE, findOK |-> FALSE]

\* validateAndCleanCache that forgets every entry.
validateRemovingAll(s) ==
    [s |-> [s EXCEPT !.cache = <<>>],
     closed |-> {s.cache[nsID] : nsID \in DOMAIN s.cache}]

\* namespaceCache.validateAndCleanCache: the entries whose descriptor fstat
\* refuses are deleted and syscall.Close is called on each (closed); the
\* call fails with EBADF and closes nothing.
validateAndCleanCache(s) ==
    LET toRemove == {nsID \in DOMAIN s.cache : s.cache[nsID] \notin DOMAIN s.open}
    IN  [s |-> [s EXCEPT !.cache = [nsID \in DOMAIN s.cache \ toRemove |-> s.cache[nsID]]],
         closed |-> {s.cache[nsID] : nsID \in toRemove}]

\* SwitchTo on a goroutine that is not switched.  setns fails on a
\* descriptor that is closed and may fail on one that is open.
NsSwitchTo ==
    /\ nsw.n < MaxNsCalls
    /\ nsw.closing = "idle"
    /\ ~nsw.switched
    /\ \E ns \in MountNamespaces \ {HomeNS}, e \in [cachedOK : BOOLEAN, findOK : BOOLEAN,
                                                     freshOK : BOOLEAN] :
        LET env == [e EXCEPT !.cachedOK = /\ e.cachedOK
                                          /\ ns \in DOMAIN nsw.s.cache
                                          /\ nsw.s.cache[ns] \in DOMAIN nsw.s.open]
            r == SwitchTo(nsw.s, ns, env)
        IN  nsw' = [nsw EXCEPT !.s = r.s, !.switched = r.ok, !.n = @ + 1,
                               !.last = NsLast("SwitchTo", ns, r.ok, env, {})]
    /\ UNCHANGED notNs

\* The Restore that matches the SwitchTo.
NsRestore ==
    /\ nsw.switched
    /\ \E allowed \in BOOLEAN :
        LET r == Restore(nsw.s, allowed /\ originalFd \in DOMAIN nsw.s.open)
        IN  nsw' = [nsw EXCEPT !.s = r.s, !.switched = FALSE,
                               !.last = NsLast("Restore", 0, r.ok, NoNsEnv, {})]
    /\ UNCHANGED notNs

\* A cached descriptor is closed by other code of the process, as the
\* tests do.
FdClosedOutside ==
    /\ nsw.n < MaxNsCalls
    /\ nsw.closing = "idle"
    /\ \E nsID \in DOMAIN nsw.s.cache :
        /\ nsw.s.cache[nsID] \in DOMAIN nsw.s.open
        /\ nsw' = [nsw EXCEPT !.s.open = Without(@, nsw.s.cache[nsID]), !.n = @ + 1,
                              !.last = NsLast("close", nsID, TRUE, NoNsEnv, {})]
    /\ UNCHANGED notNs

\* The ticker fires.
bgTick ==
    /\ ~nsw.ticked
    /\ nsw.bg = "select"
    /\ nsw' = [nsw EXCEPT !.ticked = TRUE]
    /\ UNCHANGED notNs

\* backgroundCleanup, case <-ticker.C.
bgValidate ==
    /\ nsw.bg = "select"
    /\ nsw.ticked
    /\ LET r == validateAndCleanCache(nsw.s)
       IN  nsw' = [nsw EXCEPT !.s = r.s, !.ticked = FALSE,
                              !.last = NsLast("validate", 0, TRUE, NoNsEnv, r.closed)]
    /\ UNCHANGED notNs

\* backgroundCleanup, case <-ctx.Done(): return, and cleanupDone is closed.
bgExit ==
    /\ nsw.bg = "select"
    /\ nsw.cancelled
    /\ nsw' = [nsw EXCEPT !.bg = "done"]
    /\ UNCHANGED notNs

\* Close up to its wait: ms.cleanupCancel().
NsCloseBegin ==
    /\ nsw.closing = "idle"
    /\ nsw' = [nsw EXCEPT !.closing = "waiting", !.cancelled = TRUE]
    /\ UNCHANGED notNs

\* Close that does not wait for cleanupDone.
NsCloseEndNotWaiting ==
    /\ nsw.closing = "waiting"
    /\ nsw' = [nsw EXCEPT !.closing = "closed", !.s = MsCloseOn(nsw.s).s,
                          !.last = NsLast("Close", 0, MsCloseOn(nsw.s).ret = "nil", NoNsEnv,
                                          {})]
    /\ UNCHANGED notNs

\* Close from <-ms.cleanupDone on: the home descriptor and the cache.
NsCloseEnd ==
    /\ nsw.closing = "waiting"
    /\ nsw.bg = "done"
    /\ nsw' = [nsw EXCEPT !.closing = "closed", !.s = MsCloseOn(nsw.s).s,
                          !.last = NsLast("Close", 0, MsCloseOn(nsw.s).ret = "nil", NoNsEnv,
                                          {})]
    /\ UNCHANGED notNs

\* ------------------------------------------------- GenerateDeterministicID
\* A string is the sequence of its characters.  A component is a Go value:
\* a string, or an integer written by its decimal digits.

StringValue(v) == [v |-> v, t |-> "string"]
IntValue(v) == [v |-> v, t |-> "int"]

\* "a", "b", "a:b", "1" and the integer 1.
Components ==
    {StringValue(<<"a">>), StringValue(<<"b">>), StringValue(<<"a", ":", "b">>),
     StringValue(<<"1">>), IntValue(<<"1">>)}

ComponentTuples == UNION {[1..n -> Components] : n \in 1..MaxComponents}

\* fmt.Sprintf("%v:", comp): the text of the value and a colon.
Sprintv(comp) == comp.v \o <<":">>

RECURSIVE Composite(_)
Composite(components) ==
    IF components = <<>> THEN <<>>
    ELSE Sprintv(Head(components)) \o Composite(Tail(components))

\* The id is 31 hex digits of the SHA-256 of the composite, laid out as a
\* UUID.  The hash is taken to be free of collisions: the id stands for the
\* composite it was computed from.
GenerateDeterministicID(components) == <<"uuid-of">> \o Composite(components)

\* One call for each of two tuples.
GenerateIDs ==
    /\ idPair.a = <<>>
    /\ \E a, b \in ComponentTuples :
          idPair' = [a |-> a, b |-> b, ida |-> GenerateDeterministicID(a),
                     idb |-> GenerateDeterministicID(b)]
    /\ UNCHANGED notId

IdInit == idPair = [a |-> <<>>, b |-> <<>>, ida |-> <<>>, idb |-> <<>>]

\* ------------------------------------------------- the MCPEvent as JSON
\* encoding/json on the MCPEvent of pkg/event, by the tags of its fields.  A
\* member of a JSON object is <<value>> when it is written and <<>> when it
\* is left out; a pointer is <<pointee>> or <<>> for nil.  The id is an
\* interface{}: its value carries its dynamic type.

\* The fields of the Go struct the parser filled in for the event e.
MCPEventStruct(e) ==
    [TransportType |-> e.transport,
     StdioTransport |-> IF e.transport = "stdio"
                        THEN <<[FromPID |-> e.from, ToPID |-> e.to]>> ELSE <<>>,
     HttpTransport |-> IF e.transport = "http"
                       THEN <<[PID |-> e.pid, IsRequest |-> e.isRequest]>> ELSE <<>>,
     ProcessChain |-> <<e.chain>>,
     JSONRPCMessage |-> e.msg,
     Raw |-> e.raw]

\* `json:"id,omitempty"` on an interface{}: nil is left out, an int64 is
\* written as a JSON number, a string as a JSON string.
MarshalID(id) ==
    IF id.t = "nil" THEN <<>>
    ELSE IF id.t = "int" THEN <<[v |-> id.v, j |-> "number"]>>
    ELSE <<[v |-> id.v, j |-> "string"]>>

\* json.Unmarshal into an interface{}: a JSON number becomes a float64, a
\* JSON string a string, a missing member leaves nil.
UnmarshalID(member) ==
    IF member = <<>> THEN NoIDValue
    ELSE IF member[1].j = "number" THEN [v |-> member[1].v, t |-> "float64"]
    ELSE [v |-> member[1].v, t |-> "str"]

\* JSONRPCMessage: type always; id, method, result and request with
\* omitempty; error is a struct and is always written, its own members with
\* omitempty.
RECURSIVE MarshalJSONRPCMessage(_)
MarshalJSONRPCMessage(m) ==
    [id |-> MarshalID(m.id), method |-> IF m.method = "" THEN <<>> ELSE <<m.method>>,
     type |-> <<m.type>>,
     request |-> IF m.request = <<>> THEN <<>>
                 ELSE <<MarshalJSONRPCMessage(m.request[1])>>,
     error |-> <<IF m.hasError THEN <<"error">> ELSE <<>>>>,
     result |-> IF m.hasResult THEN <<"result">> ELSE <<>>]

RECURSIVE UnmarshalJSONRPCMessage(_)
UnmarshalJSONRPCMessage(o) ==
    [id |-> UnmarshalID(o.id),
     method |-> IF o.method = <<>> THEN "" ELSE o.method[1],
     hasResult |-> o.result # <<>>,
     hasError |-> o.error[1] # <<>>,
     type |-> o.type[1],
     request |-> IF o.request = <<>> THEN <<>>
                 ELSE <<UnmarshalJSONRPCMessage(o.request[1])>>]

\* MCPEvent: the members of the embedded JSONRPCMessage are members of the
\* event's object; the two transports are tagged pointers with omitempty;
\* the members of HttpTransport have omitempty.
MarshalMCPEvent(g) ==
    [raw |-> <<g.Raw>>, message |-> MarshalJSONRPCMessage(g.JSONRPCMessage),
     transport_type |-> <<g.TransportType>>,
     stdio_transport |-> IF g.StdioTransport = <<>> THEN <<>>
        ELSE <<[from_pid |-> <<g.StdioTransport[1].FromPID>>,
                to_pid |-> <<g.StdioTransport[1].ToPID>>]>>,
     http_transport |-> IF g.HttpTransport = <<>> THEN <<>>
        ELSE <<[pid |-> IF g.HttpTransport[1].PID = 0 THEN <<>>
                        ELSE <<g.HttpTransport[1].PID>>,
                is_request |-> IF g.HttpTransport[1].IsRequest THEN <<TRUE>> ELSE <<>>]>>,
     process_chain |-> g.ProcessChain]

UnmarshalMCPEvent(o) ==
    [TransportType |-> o.transport_type[1],
     StdioTransport |->
        IF o.stdio_transport = <<>> THEN <<>>
        ELSE <<[FromPID |-> o.stdio_transport[1].from_pid[1],
                ToPID |-> o.stdio_transport[1].to_pid[1]]>>,
     HttpTransport |->
        IF o.http_transport = <<>> THEN <<>>
        ELSE <<[PID |-> IF o.http_transport[1].pid = <<>> THEN 0
                        ELSE o.http_transport[1].pid[1],
                IsRequest |-> o.http_transport[1].is_request # <<>>]>>,
     ProcessChain |-> o.process_chain,
     JSONRPCMessage |-> UnmarshalJSONRPCMessage(o.message),
     Raw |-> o.raw[1]]

\* Requests, responses with a result or an error, and notifications, with
\* integer and with string ids.
JsonIDs == {NumID("1"), NumID("2"), StrID("1"), StrID("abc")}

JsonPayloads ==
    {Payload("2.0", id, TRUE, m, FALSE, FALSE) :
        id \in JsonIDs, m \in {"initialize", "tools/call"}}
    \cup
    {Payload("2.0", id, FALSE, NoMethod, r, ~r) : id \in JsonIDs, r \in BOOLEAN}
    \cup
    {Payload("2.0", NoID, TRUE, m, FALSE, FALSE) :
        m \in {"notifications/initialized", "notifications/progress"}}

\* The input events the parser is given: each payload over stdio and HTTP.
JsonInputs ==
    {[from |-> h[1], to |-> h[2], t |-> "stdio", pid |-> 0, ssl |-> 0,
      kind |-> "fs", buf |-> <<p>>] : h \in StdioHops, p \in JsonPayloads}
    \cup
    {[from |-> 0, to |-> 0, t |-> "http", pid |-> s.pid, ssl |-> s.ssl,
      kind |-> HttpKindOf(<<p>>), buf |-> <<p>>] : s \in HttpSessions, p \in JsonPayloads}

\* The events a new parser publishes for the input events a and then b.
Emitted(a, b) ==
    LET st0 == ParserState(<<>>, <<>>, <<>>, <<>>)
        st1 == ParseFrom(st0, a, 1)
    IN  Range(ParseFrom(st1, b, 1).pub)

\* json.Marshal of an event the parser emitted and json.Unmarshal of the text.
RoundTrip ==
    /\ rt.json = <<>>
    /\ \E a, b \in JsonInputs :
          \E e \in Emitted(a, b) :
              LET g == MCPEventStruct(e)
              IN  rt' = [json |-> MarshalMCPEvent(g), event |-> g,
                         back |-> UnmarshalMCPEvent(MarshalMCPEvent(g))]
    /\ UNCHANGED notJson

JsonInit == rt = [json |-> <<>>, event |-> <<>>, back |-> <<>>]

\* ------------------------------------------- classification and validation
\* Every shape of a JSON-RPC message: each combination of presence of method,
\* id, result and error, with "2.0" and another version, the id a number or
\* a string, the method allowed, unknown or empty.
ShapeMethods == {"initialize", "notifications/initialized", "bogus/method", ""}

Shapes ==
    {Payload(ver, id, TRUE, m, r, e) :
        ver \in {"2.0", "1.0"}, id \in {NoID, NumID("1"), StrID("1")},
        m \in ShapeMethods, r \in BOOLEAN, e \in BOOLEAN}
    \cup
    {Payload(ver, id, FALSE, NoMethod, r, e) :
        ver \in {"2.0", "1.0"}, id \in {NoID, NumID("1"), StrID("1")},
        r \in BOOLEAN, e \in BOOLEAN}

\* An input event with one payload, on stdio from 100 to 200 or on the HTTP
\* session of pid 400.
InputOn(transport, p) ==
    IF transport = "stdio"
    THEN [from |-> 100, to |-> 200, t |-> "stdio", pid |-> 0, ssl |-> 0,
          kind |-> "fs", buf |-> <<p>>]
    ELSE [from |-> 0, to |-> 0, t |-> "http", pid |-> 400, ssl |-> 1,
          kind |-> HttpKindOf(<<p>>), buf |-> <<p>>]

\* A new parser is given a request and then a message of any shape.
Classify ==
    /\ classified.pub = <<>>
    /\ classified.b = NoEvent
    /\ \E t \in {"stdio", "http"}, q \in {ReqInit, ReqStr}, p \in Shapes :
          LET a == InputOn(t, q)
              b == InputOn(t, p)
              st0 == ParserState(<<>>, <<>>, <<>>, <<>>)
              st1 == ParseFrom(st0, a, 1)
          IN  classified' = [a |-> a, b |-> b, msg |-> parseJSONRPC(p),
                             pub |-> ParseFrom(st1, b, 1).pub,
                             valid |-> validateMCPMessage(parseJSONRPC(p))]
    /\ UNCHANGED notClassify

ClassifyInit ==
    classified = [a |-> NoEvent, b |-> NoEvent, msg |-> ParseError, pub |-> <<>>,
                  valid |-> FALSE]

\* NewLibraryManager with NewMountNamespaceSwitcher: the home namespace is
\* opened, the maps are empty.
LibInit ==
    /\ hookedLibs = <<>>
    /\ failedLibs = <<>>
    /\ sw = [cache |-> <<>>, open |-> [fd \in {originalFd} |-> HomeNS],
             lockDepth |-> 0, curNS |-> HomeNS]
    /\ libLast = [op |-> "New", inode |-> 0, calls |-> <<>>, ret |-> "nil", ns |-> 0]
    /\ nlib = 0

Init ==
    /\ ParserInit /\ LibInit /\ ConcInit /\ AggInit /\ TlsInit /\ PcInit /\ CloseInit
    /\ IdInit /\ JsonInit /\ ClassifyInit /\ WriteInit /\ LoadInit /\ HttpInit /\ RingInit /\ NsInit /\ ThrInit

ParserNext == ParseDataStdio \/ ParseDataHttp \/ Tick

SpecParser == Init /\ [][ParserNext]_vars

HopsNext == ParseDataStdioHops \/ Tick

SpecHops == Init /\ [][HopsNext]_vars

LibNext == ProcessLibraryEvent \/ Clean

SpecLib == Init /\ [][LibNext]_vars

LibConcNext ==
    \E w \in Workers :
        LibEnter(w) \/ LibLock(w) \/ LibCheck(w) \/ LibAttach(w) \/ LibUnlock(w)

SpecLibConc == Init /\ [][LibConcNext]_vars

AggNext == \E k \in StreamKeys : StartTransfer(k) \/ exit_vfs_read(k)

SpecAgg == Init /\ [][AggNext]_vars

TlsNext ==
    \/ \E ssl \in SSLs : ssl_new_exit(ssl) \/ ssl_free_entry(ssl) \/ ssl_write_entry(ssl)
    \/ \E pid \in Pids :
          \/ \E ssl \in SSLs : ssl_do_handshake_entry(pid, ssl) \/ ssl_read_entry(pid, ssl)
          \/ ssl_do_handshake_exit(pid)
          \/ ssl_read_exit(pid)

SpecTls == Init /\ [][TlsNext]_vars

\* The probes that submit payloads, on sessions that SSL_new made.
TlsSizesNext ==
    \/ \E ssl \in SSLs : ssl_new_exit(ssl) \/ ssl_write_entry(ssl) \/ ssl_write_ex_entry(ssl)
    \/ \E pid \in Pids :
          \/ \E ssl \in SSLs : ssl_read_entry(pid, ssl) \/ ssl_read_ex_entry(pid, ssl)
          \/ ssl_read_exit(pid)
          \/ ssl_read_ex_exit(pid)

SpecTlsSizes == Init /\ [][TlsSizesNext]_vars

ThreadsNext ==
    \/ \E ssl \in SSLs : ssl_new_exit(ssl)
    \/ \E tid \in Tids :
          \/ \E ssl \in SSLs :
                \/ thread_ssl_read_entry(tid, ssl)
                \/ thread_ssl_read_ex_entry(tid, ssl)
                \/ thread_ssl_do_handshake_entry(tid, ssl)
          \/ thread_ssl_read_exit(tid)
          \/ thread_ssl_read_ex_exit(tid)
          \/ thread_ssl_do_handshake_exit(tid)

SpecThreads == Init /\ [][ThreadsNext]_vars

SpecLoad == Init /\ [][Load]_vars

SpecHttp == Init /\ [][ParseMessage]_vars

SpecMany == Init /\ [][ParseDataMany \/ Tick]_vars

NsNext ==
    \/ NsSwitchTo
    \/ NsRestore
    \/ FdClosedOutside
    \/ bgTick
    \/ bgValidate
    \/ bgExit
    \/ NsCloseBegin
    \/ NsCloseEnd

SpecNs == Init /\ [][NsNext]_vars

\* A goroutine that can run does run, and a select whose ctx.Done() case is
\* ready again and again takes it in the end.
FairSpecNs == SpecNs /\ SF_vars(bgExit) /\ WF_vars(bgValidate) /\ WF_vars(NsCloseEnd)

RingNext ==
    \/ Cancel
    \/ rbSelect
    \/ rbRead
    \/ rbSend
    \/ mainSelect
    \/ mainHandle
    \/ RingClose
    \/ processHTTPData

SpecRing == Init /\ [][RingNext]_vars

\* A goroutine that can run does run, and a deferred call is made.
FairSpecRing ==
    /\ SpecRing
    /\ WF_vars(rbSelect) /\ WF_vars(rbRead) /\ WF_vars(rbSend)
    /\ WF_vars(mainSelect) /\ WF_vars(mainHandle) /\ WF_vars(RingClose)

PcNext ==
    \E w \in Goroutines :
        pcEnter(w) \/ pcGet(w) \/ pcAdd(w) \/ pcCheck(w) \/ pcAppend(w) \/ pcPublish(w)

SpecParserConc == Init /\ [][PcNext]_vars

CloseNext == PriorUse \/ MsClose \/ LmClose \/ LoaderClose \/ MsRestore

SpecClose == Init /\ [][CloseNext]_vars

SpecID == Init /\ [][GenerateIDs]_vars

SpecJSON == Init /\ [][RoundTrip]_vars

SpecClassify == Init /\ [][Classify]_vars

AggWriteNext == \E k \in StreamKeys : StartWrite(k) \/ exit_vfs_write(k)

SpecAggWrite == Init /\ [][AggWriteNext]_vars

\* One stream, with time passing between its reads.
AggAgeNext == StartTransfer(1) \/ exit_vfs_read(1) \/ AggTick

SpecAggAge == Init /\ [][AggAgeNext]_vars

\* ------------------------------------------------------------ properties
\* The steps of the parser's handlers are those that count an observation.

Events(pub) == Range(pub)

NormalizedPair(a, b) == <<Min(a, b), Max(a, b)>>

\* The key under which the request of a message of this input event is looked
\* up or cached when the message is the first observation of its bytes.
KeyOf(ev, id) ==
    idToCacheKey(id, IF ev.t = "http" THEN <<>>
                     ELSE CorrelationSignature(<<Hop(ev.from, ev.to)>>))

\* C1: every published MCPEvent of type response carries an embedded request,
\* and a response for whose correlation key no request is cached is dropped:
\* the handler publishes no MCPEvent for it.
C1_ResponseHasRequestOrDropped ==
    [][nobs' # nobs =>
        /\ \A e \in Events(published') :
               e.msg.type = "response" => e.msg.request # <<>>
        /\ \A i \in 1..Len(last'.ev.buf) :
               LET p == last'.ev.buf[i]
                   m == parseJSONRPC(p)
               IN  (/\ m.type = "response"
                    /\ ~Live(requestIDCache, KeyOf(last'.ev, m.id), requestIDCacheTTL))
                   => \A e \in Events(published') : e.raw # p
      ]_vars

\* A response has just been looked up, found no request and was dropped.
C1_Witness ==
    /\ last.ev.buf = <<RespOne>>
    /\ \E i \in 1..Len(last.ops) : last.ops[i].op = "Get"
    /\ published = <<>>
    /\ requestIDCache # <<>>
    /\ RespOne \in DOMAIN seenHashCache
    /\ seenHashCache[RespOne].emitted = 0
    /\ seenHashCache[RespOne].age = 0

IsPrefix(a, b) == Len(a) <= Len(b) /\ \A i \in 1..Len(a) : a[i] = b[i]

NoRepeatedHop(pc) ==
    \A i, j \in 1..Len(pc) :
        (pc[i].from = pc[j].from /\ pc[i].to = pc[j].to) => i = j

\* C3: the process chain of the event emitted for a payload (the chain of the
\* payload's metadata, to which the event points) holds every hop on which
\* the payload was observed, in first-seen order: an observation keeps the
\* hops there were and puts its own hop last when it is a new one; no two
\* hops of a chain have the same (from, to).
C3_ChainHoldsHopsInOrder ==
    [][nobs' # nobs =>
        /\ \A h \in DOMAIN seenHashCache' : NoRepeatedHop(seenHashCache'[h].hops)
        /\ \A i \in 1..Len(last'.ev.buf) :
               LET p == last'.ev.buf[i]
                   hop == Hop(last'.ev.from, last'.ev.to)
               IN  Live(seenHashCache, p, seenHashCacheTTL) =>
                       LET old == seenHashCache[p].hops
                           new == seenHashCache'[p].hops
                       IN  /\ IsPrefix(old, new)
                           /\ hop \in Range(new)
                           /\ hop \notin Range(old) => new = Append(old, hop)
                           /\ hop \in Range(old) => new = old
      ]_vars

\* The request seen on 100->200 and then on 200->300 was emitted once and its
\* chain is [100->200, 200->300].
C3_Witness ==
    /\ ReqInit \in DOMAIN seenHashCache
    /\ seenHashCache[ReqInit].emitted = 1
    /\ seenHashCache[ReqInit].hops = <<Hop(100, 200), Hop(200, 300)>>
    /\ last.ev.buf = <<ReqInit>>
    /\ last.ev.from = 200 /\ last.ev.to = 300

\* C4: a published STDIO response carries the request of the same id that was
\* observed between the same two processes (the normalized pid pairs are
\* equal), the embedded request is that request as it was parsed, and it is
\* never a request cached for another pid pair or for HTTP.
C4_StdioPairedWithinPidPair ==
    \A e \in Events(published) :
        (e.transport = "stdio" /\ e.msg.type = "response") =>
            /\ e.msg.request # <<>>
            /\ e.reqSrc.t = "stdio"
            /\ NormalizedPair(e.reqSrc.from, e.reqSrc.to) = NormalizedPair(e.from, e.to)
            /\ e.msg.request[1].type = "request"
            /\ e.msg.request[1].id = e.msg.id
            /\ e.msg.request[1] = parseJSONRPC(e.reqSrc.raw[1])

\* The response seen on 200->100 was published with the request seen on
\* 100->200, while a request of the same id is cached for another pid pair.
C4_Witness ==
    /\ \E e \in Events(published) :
           /\ e.transport = "stdio" /\ e.msg.type = "response"
           /\ e.from = 200 /\ e.to = 100
           /\ e.reqSrc.from = 100 /\ e.reqSrc.to = 200
           /\ e.msg.request = <<parseJSONRPC(ReqInit)>>
    /\ \E k \in DOMAIN requestIDCache :
           /\ requestIDCache[k].msg.id = parseJSONRPC(RespOne).id
           /\ requestIDCache[k].src.t = "http"

\* C5: when the request is observed on 100->200 and then on 200->300, and
\* later, with the request still cached, its response on 300->200 and then
\* on 200->100, the response is emitted.
C5_MultiHopResponseEmitted ==
    (/\ ReqInit \in DOMAIN seenHashCache
     /\ RespOne \in DOMAIN seenHashCache
     /\ seenHashCache[ReqInit].hops = <<Hop(100, 200), Hop(200, 300)>>
     /\ seenHashCache[RespOne].hops = <<Hop(300, 200), Hop(200, 100)>>
     /\ seenHashCache[ReqInit].age > seenHashCache[RespOne].age
     /\ \E k \in DOMAIN requestIDCache :
            requestIDCache[k].msg = parseJSONRPC(ReqInit))
    => seenHashCache[RespOne].emitted = 1

\* C6 as stated: a published HTTP response carries a request that was
\* observed on the same SSL session and in the same process.
C6_HttpPairingWithinSession ==
    \A e \in Events(published) :
        (e.transport = "http" /\ e.msg.type = "response") =>
            /\ e.msg.request # <<>>
            /\ e.reqSrc.ssl = e.sslCtx
            /\ e.reqSrc.pid = e.pid

\* C6, amended: HTTP pairing is by id alone.  A published HTTP response
\* carries the request that was cached under the key made of its id and
\* nothing else, whatever session or process that request was observed on.
C6_HttpPairingByIdOnly ==
    [][(nobs' # nobs /\ last'.ev.t = "http") =>
        \A e \in Events(published') :
            e.msg.type = "response" =>
                LET key == IF e.msg.id.t = "int" THEN <<"i:", e.msg.id.v>>
                           ELSE <<"s:", e.msg.id.v>>
                IN  /\ Live(requestIDCache, key, requestIDCacheTTL)
                    /\ e.msg.request = <<requestIDCache[key].msg>>
                    /\ e.reqSrc = requestIDCache[key].src
                    /\ e.msg.request[1].id = e.msg.id
      ]_vars

\* A response on one session and process was published with the request
\* observed on another session of another process.
C6_Witness ==
    \E e \in Events(published) :
        /\ e.transport = "http" /\ e.msg.type = "response"
        /\ e.reqSrc.t = "http"
        /\ e.reqSrc.ssl # e.sslCtx
        /\ e.reqSrc.pid # e.pid

\* C7 as stated: a response observed before its request, both within the
\* TTL, is emitted paired with that request.
C7_ReorderedResponseEmitted ==
    \A p \in DOMAIN seenHashCache :
        (/\ parseJSONRPC(p).type = "response"
         /\ seenHashCache[p].hops[1].from # seenHashCache[p].hops[1].to
         /\ \E k \in DOMAIN requestIDCache :
                /\ requestIDCache[k].msg.id = parseJSONRPC(p).id
                /\ requestIDCache[k].src.t = "stdio"
                /\ NormalizedPair(requestIDCache[k].src.from, requestIDCache[k].src.to)
                       = NormalizedPair(seenHashCache[p].hops[1].from,
                                        seenHashCache[p].hops[1].to)
                /\ requestIDCache[k].age < seenHashCache[p].age)
        => seenHashCache[p].emitted = 1

\* C7, amended: reordering is not tolerated.  A response observed before its
\* request is dropped, and while its bytes stay in the dedup cache it stays
\* unemitted: observing the request, or the response again, publishes no
\* event for the response.
C7_EarlyResponseStaysDropped ==
    [][nobs' # nobs =>
        \A p \in DOMAIN seenHashCache :
            (parseJSONRPC(p).type = "response" /\ seenHashCache[p].emitted = 0) =>
                /\ p \in DOMAIN seenHashCache'
                /\ seenHashCache'[p].emitted = 0
                /\ \A e \in Events(published') : e.raw # p
      ]_vars

\* The response came first and was dropped, its request was cached after it,
\* and the response has just been observed again: nothing was looked up and
\* nothing published.
C7_Witness ==
    /\ last.ev.t = "stdio"
    /\ last.ev.buf = <<RespOne>>
    /\ last.ops = <<>>
    /\ published = <<>>
    /\ RespOne \in DOMAIN seenHashCache
    /\ seenHashCache[RespOne].emitted = 0
    /\ Live(requestIDCache, KeyOf(last.ev, parseJSONRPC(RespOne).id), requestIDCacheTTL)
    /\ requestIDCache[KeyOf(last.ev, parseJSONRPC(RespOne).id)].age
           < seenHashCache[RespOne].age

IsRestore(c) == c \in {"Restore:ok", "Restore:err"}

IsAttach(c) == c \in {"AttachSSLProbes:ok", "AttachSSLProbes:err"}

C10_RestoreAfterFailedSwitch ==
    (/\ libLast.op = "ProcessLibraryEvent"
     /\ \E i \in 1..Len(libLast.calls) : libLast.calls[i] = "SwitchTo:err")
    => /\ \E i \in 1..Len(libLast.calls) : IsRestore(libLast.calls[i])
       /\ libLast.ret = "switch"

\* C10, amended: when SwitchTo fails during an attach, neither Restore nor
\* AttachSSLProbes is called; the thread stays in the namespace and at the
\* lock depth it had, ProcessLibraryEvent returns the failure of the switch
\* and records it for the inode, which is not hooked.
C10_FailedSwitchIsReturnedWithoutRestore ==
    [][(/\ nlib' # nlib
        /\ libLast'.op = "ProcessLibraryEvent"
        /\ \E i \in 1..Len(libLast'.calls) : libLast'.calls[i] = "SwitchTo:err") =>
            /\ libLast'.calls = <<"SwitchTo:err">>
            /\ libLast'.ret = "switch"
            /\ sw'.curNS = sw.curNS
            /\ sw'.lockDepth = sw.lockDepth
            /\ libLast'.inode \in DOMAIN failedLibs'
            /\ failedLibs'[libLast'.inode] = "switch"
            /\ libLast'.inode \notin DOMAIN hookedLibs'
            /\ hookedLibs' = hookedLibs
      ]_vars

\* The switch to another namespace has just failed: only SwitchTo was called
\* and its failure was returned and recorded.
C10_Witness ==
    /\ libLast.op = "ProcessLibraryEvent"
    /\ libLast.ns # HomeNS
    /\ libLast.calls = <<"SwitchTo:err">>
    /\ libLast.ret = "switch"
    /\ libLast.inode \in DOMAIN failedLibs
    /\ sw.curNS = HomeNS

\* C11: over any interleaving of concurrent calls of ProcessLibraryEvent,
\* with no Clean, AttachSSLProbes is called at most once for an inode; a call
\* for an inode that is hooked or has failed already returns nil, calls
\* nothing, and leaves hookedLibs, failedLibs and the switcher with the
\* thread's mount namespace as they were.
C11_AttachAtMostOncePerInode ==
    [][/\ \A i \in Inodes : attached'[i] <= 1
       /\ \A w \in Workers :
              (/\ wpc[w] = "attach"
               /\ wpc'[w] = "unlock"
               /\ \/ wev[w].inode \in DOMAIN hookedLibs
                  \/ wev[w].inode \in DOMAIN failedLibs) =>
                  /\ libLast'.inode = wev[w].inode
                  /\ libLast'.ret = "nil"
                  /\ libLast'.calls = <<>>
                  /\ hookedLibs' = hookedLibs
                  /\ failedLibs' = failedLibs
                  /\ sw' = sw
                  /\ attached' = attached
      ]_vars

\* The attach for an inode failed once; a later event for it, handled while
\* another worker waits for the mutex, returned nil without a call.
C11_Witness ==
    /\ libLast.op = "ProcessLibraryEvent"
    /\ libLast.inode \in DOMAIN failedLibs
    /\ attached[libLast.inode] = 1
    /\ libLast.calls = <<>>
    /\ libLast.ret = "nil"
    /\ \E w \in Workers : wpc[w] = "unlock" /\ wev[w].inode = libLast.inode
    /\ \E w \in Workers : wpc[w] = "lock" /\ wev[w].inode = libLast.inode

\* ---------------------------------------------------------------------
\* C12: a JSON-RPC object that arrives on one stream as several reads, the
\* first of which begins with '{' and is not balanced on its own, is
\* submitted once, whole, with its fragments in order.
Delivered(k) == feed[k].doc # <<>> /\ feed[k].rest = <<>> /\ feed[k].clean

C12_FragmentsReassembledOnce ==
    \A k \in StreamKeys :
        (Delivered(k) /\ feed[k].doc = Join(ToolsCallFragments) /\ feed[k].chunk = 0)
            => feed[k].out = <<Join(ToolsCallFragments)>>

\* ---------------------------------------------------------------------
\* C13: a balanced input of at most 64 KiB gives the same submitted output
\* whatever the size of the reads it arrives in, and an input of 64 KiB and
\* one byte gives no event and leaves no entry in json_streams.
Balanced(b) == BCount(b, "{") > 0 /\ BCount(b, "{") = BCount(b, "}")

C13_OutputIndependentOfChunking ==
    /\ \A k1, k2 \in StreamKeys :
          ( /\ Delivered(k1) /\ Delivered(k2)
            /\ feed[k1].doc = feed[k2].doc
            /\ feed[k1].chunk \in ChunkSizes /\ feed[k2].chunk \in ChunkSizes
            /\ Balanced(feed[k1].doc)
            /\ BSize(feed[k1].doc) <= MAX_AGGREGATED_SIZE )
          => feed[k1].out = feed[k2].out
    /\ \A k \in StreamKeys :
          (Delivered(k) /\ BSize(feed[k].doc) = MAX_AGGREGATED_SIZE + 1)
          => (feed[k].out = <<>> /\ json_streams[k] = NoState)

\* ---------------------------------------------------------------------
\* C14: the buffer of every event the aggregation submits has as many '{'
\* as '}', at least one of each, and '{' as its first byte.
C14_SubmittedBufferBalanced ==
    ringbuf # NoData =>
        /\ Balanced(ringbuf.buf)
        /\ Head(ringbuf.buf).ch = "{"

\* ---------------------------------------------------------------------
\* C15: a TLS payload event is submitted for an SSL context only after
\* SSL_do_handshake has returned 1 for it since its SSL_new, that is, only
\* for a session whose active flag is set.
IsTlsPayload(ev) == ev.t \in {"EVENT_TLS_PAYLOAD_SEND", "EVENT_TLS_PAYLOAD_RECV"}

C15_PayloadOnlyAfterHandshake ==
    IsTlsPayload(tlsEv) =>
        /\ handshaken[tlsEv.ssl_ctx]
        /\ ssl_sessions[tlsEv.ssl_ctx].is_active = 1

\* ---------------------------------------------------------------------
\* C16: when calls of ParseDataStdio / ParseDataHttp with the same bytes on
\* different hops run at the same time, one MCPEvent is published, and its
\* chain holds every hop that was observed, once.
AllReturned == \A w \in Goroutines : pw[w].pc = "idle"

ChainHasOnce(Hops, hop) == Cardinality({i \in 1..Len(Hops) : Hops[i] = hop}) = 1

C16_ConcurrentCallsPublishOnce ==
    (AllReturned /\ nobs > 0 /\ Cardinality(phops) = nobs) =>
        /\ Len(cpub) = 1
        /\ \A hop \in phops : ChainHasOnce(heap.objs[cpub[1].obj], hop)

\* ---------------------------------------------------------------------
\* C17: a second Close of the MountNamespaceSwitcher, of the LibraryManager
\* or of the Loader returns without error or panic and closes no descriptor
\* and no channel that is closed already.
IsClose(op) == op \in {"ms.Close", "lm.Close", "Loader.Close"}

C17_SecondCloseIsNoOp ==
    (IsClose(swLast.op) /\ swLast.nth >= 2) =>
        (swLast.ret = "nil" /\ swLast.again = {})

C19_IdsInjective ==
    /\ idPair.a = idPair.b => idPair.ida = idPair.idb
    /\ idPair.a # idPair.b => idPair.ida # idPair.idb

\* C20: an emitted MCPEvent that is written as JSON and read back is equal to
\* the original, for requests, responses with their request attached and
\* notifications, for integer and string ids, over stdio and HTTP.
C20_RoundTripIsEqual == rt.json # <<>> => rt.back = rt.event

\* The same for the events whose ids (the event's own and that of an attached
\* request) are strings or missing.
C20_StringIdsRoundTrip ==
    (/\ rt.json # <<>>
     /\ rt.event.JSONRPCMessage.id.t # "int"
     /\ (rt.event.JSONRPCMessage.request # <<>>
            => rt.event.JSONRPCMessage.request[1].id.t # "int"))
    => rt.back = rt.event

\* An integer id comes back with the same digits as a float64.
C20_IntegerIdComesBackFloat ==
    (rt.json # <<>> /\ rt.event.JSONRPCMessage.id.t = "int")
    => /\ rt.back.JSONRPCMessage.id.t = "float64"
       /\ rt.back.JSONRPCMessage.id.v = rt.event.JSONRPCMessage.id.v


\* The events published for the second input event.
PublishedFor(ev) == {e \in Range(classified.pub) : e.raw = ev.buf[1]}

ShapeOf(ev) == ev.buf[1]

\* C21: no MCPEvent is published for a request or a notification whose method
\* is not in the allow-list; a response needs no method to be accepted; a
\* message with both a method and an id is never emitted as a notification.
C21_AllowListEnforced ==
    classified.b # NoEvent =>
        LET p == ShapeOf(classified.b)
        IN  /\ (p.hasMethod /\ p.method \notin allowedMCPMethods)
                  => PublishedFor(classified.b) = {}
            /\ \A e \in Range(classified.pub) :
                  e.msg.type \in {"request", "notification"}
                      => e.msg.method \in allowedMCPMethods
            /\ (/\ p.jsonrpc = "2.0" /\ ~p.hasMethod /\ p.id.k # "absent"
                /\ (p.hasResult \/ p.hasError))
                  => classified.valid
            /\ (p.hasMethod /\ p.id.k # "absent")
                  => \A e \in PublishedFor(classified.b) : e.msg.type # "notification"

\* A request with an unknown method followed an allowed one: only the allowed
\* one was published.
C21_Witness ==
    /\ classified.b # NoEvent
    /\ ShapeOf(classified.b).method = "bogus/method"
    /\ ShapeOf(classified.b).id.k # "absent"
    /\ ShapeOf(classified.b).jsonrpc = "2.0"
    /\ Len(classified.pub) = 1
    /\ classified.pub[1].raw = ShapeOf(classified.a)

\* A response without a method was published with its request attached.
C21_ResponsePublished ==
    /\ classified.b # NoEvent
    /\ \E e \in PublishedFor(classified.b) :
          e.msg.type = "response" /\ e.msg.method = "" /\ e.msg.request # <<>>

\* The kind the presence of the fields stands for; "error" is a rejection.
KindByPresence(p) ==
    IF p.jsonrpc # "2.0" THEN "error"
    ELSE IF p.hasMethod /\ p.id.k # "absent" THEN "request"
    ELSE IF ~p.hasMethod /\ p.id.k # "absent" /\ (p.hasResult \/ p.hasError)
         THEN "response"
    ELSE IF p.hasMethod /\ p.id.k = "absent" THEN "notification"
    ELSE "error"

\* C22: parseJSONRPC classifies by field presence, for every combination of
\* method, id, result and error: method and id give a request; id with result
\* or error and no method a response; method without id a notification; any
\* other shape and any jsonrpc other than "2.0" is rejected.
C22_ClassifiedByPresence ==
    classified.b # NoEvent =>
        /\ classified.msg.type = KindByPresence(ShapeOf(classified.b))
        /\ classified.msg.type = "error" => PublishedFor(classified.b) = {}

\* A message with method, id, result and error was classified as a request.
C22_Witness ==
    /\ classified.b # NoEvent
    /\ ShapeOf(classified.b).hasMethod
    /\ ShapeOf(classified.b).id.k = "str"
    /\ ShapeOf(classified.b).hasResult
    /\ ShapeOf(classified.b).hasError
    /\ ShapeOf(classified.b).jsonrpc = "2.0"
    /\ classified.msg.type = "request"
    /\ classified.msg.id = [v |-> "1", t |-> "str"]

\* C23: a complete JSON message written with vfs_write on a stream is
\* aggregated as a read is and submitted as one aggregated event: once the
\* writer has written the whole of a balanced object of at least 8 bytes in
\* one call, with no kernel helper failing, the program has submitted it.
C23_WriteAggregated ==
    \A k \in StreamKeys :
        (/\ wfeed[k].doc \in {Object(8), DocNested, Object(1000)}
         /\ wfeed[k].chunk = BSize(wfeed[k].doc)
         /\ wfeed[k].rest = <<>>
         /\ wfeed[k].clean)
        => wfeed[k].out = <<wfeed[k].doc>>

\* Whatever is written, the program submits nothing and keeps no state.
C23_WriteSubmitsNothing ==
    \A k \in StreamKeys : wfeed[k].out = <<>> /\ json_streams[k] = NoState

\* The '{' and '}' of all the bytes a stream state holds, counted from its
\* first byte; invalid when some '}' has no '{' before it.
CumulativeCount(state) ==
    count_brackets_callback(bracket_count_ctx(0, 0, FALSE), state.data)

\* C24: every stream state in json_streams has close_brackets <=
\* open_brackets, the counts being those of the whole stream so far: a
\* stream whose bytes hold a '}' with no '{' before it has no entry any more,
\* and the counts of a stream that is valid so far are those of its bytes.
C24_CumulativeBracketCounts ==
    \A k \in StreamKeys :
        (json_streams[k] # NoState /\ feed[k].clean) =>
            /\ json_streams[k].close_brackets <= json_streams[k].open_brackets
            /\ ~CumulativeCount(json_streams[k]).invalid
            /\ json_streams[k].open_brackets = BCount(json_streams[k].data, "{")
            /\ json_streams[k].close_brackets = BCount(json_streams[k].data, "}")

\* The counters themselves never hold more '}' than '{'.
C24_CloseNeverExceedsOpen ==
    \A k \in StreamKeys :
        json_streams[k] # NoState =>
            json_streams[k].close_brackets <= json_streams[k].open_brackets

\* A stream whose bytes are valid so far and complete stays in json_streams
\* with counts that miss the '}' of its last segment.
C24_ValidSegmentNotCounted ==
    \E k \in StreamKeys :
        /\ json_streams[k] # NoState /\ feed[k].clean
        /\ feed[k].rest = <<>>
        /\ json_streams[k].data = Join(OpenThenClose)
        /\ ~CumulativeCount(json_streams[k]).invalid
        /\ json_streams[k].close_brackets < BCount(json_streams[k].data, "}")

\* A stream whose bytes hold an unmatched '}' stays in json_streams.
C24_InvalidStreamKept ==
    \E k \in StreamKeys :
        /\ json_streams[k] # NoState /\ feed[k].clean
        /\ CumulativeCount(json_streams[k]).invalid

\* The stream k has an entry and this step is the read of a segment that
\* does not fit into what is left of its 64 KiB.
OverflowingRead(k) ==
    /\ json_streams[k] # NoState
    /\ feed[k].rest # <<>>
    /\ feed'[k].rest = Tail(feed[k].rest)
    /\ json_streams[k].accumulated_size + BSize(Head(feed[k].rest)) > MAX_AGGREGATED_SIZE

\* C25: the read of a segment that would take the stream's bytes beyond
\* 64 KiB deletes the stream's entry and submits no event, so that no buffer
\* is submitted with a part of a segment cut off.
C25_OverflowDropsStream ==
    [][\A k \in StreamKeys :
          OverflowingRead(k) => (json_streams'[k] = NoState /\ ringbuf' = NoData)]_vars

\* Every submitted buffer ends where the segment just read ends: with the
\* reads still to come it makes up the end of what was written.
C25_NoCutBufferSubmitted ==
    ringbuf # NoData =>
        LET f == feed[ringbuf.key]
            tail == BCat(ringbuf.buf, Join(f.rest))
        IN  BDrop(f.doc, BSize(f.doc) - BSize(tail)) = tail

\* A buffer of 64 KiB was submitted for a stream that had been given 66 000
\* bytes.
C25_CutBufferSubmitted ==
    /\ ringbuf # NoData
    /\ feed[ringbuf.key].doc = Join(OverflowingObject)
    /\ feed[ringbuf.key].rest = <<>>
    /\ feed[ringbuf.key].clean
    /\ ringbuf.buf_size = MAX_BUF_SIZE
    /\ ringbuf.buf = BTake(Join(OverflowingObject), MAX_BUF_SIZE)

\* The entry of the stream was last written more than 5 seconds ago.
Stale(k) == json_streams[k] # NoState /\ ktime - last_update_ns[k] > 5

\* This step is a read of data on the stream k.
ReadOf(k) == feed[k].rest # <<>> /\ feed'[k].rest = Tail(feed[k].rest)

\* C26: an incomplete stream that was last updated more than about 5 s ago
\* is evicted: a read on its key starts a new stream, so what the read stores
\* or submits holds the bytes of that read only.
C26_StaleStreamEvicted ==
    [][\A k \in StreamKeys :
          (Stale(k) /\ ReadOf(k)) =>
              /\ json_streams'[k] # NoState
                    => json_streams'[k].data = Head(feed[k].rest)
              /\ ringbuf' # NoData => ringbuf'.buf = Head(feed[k].rest)]_vars

\* An entry that was last written 6 s ago is still there, with 20 000 bytes,
\* when the next read of its stream is due.
C26_StaleEntryKept ==
    /\ Stale(1)
    /\ json_streams[1].accumulated_size = 20000
    /\ feed[1].rest = <<Object(8)>>
    /\ feed[1].clean

\* C27: once the first classified payload of an SSL session has shown a
\* server-side role (a request on a read, a response on a write), the session
\* has no entry and no payload of that SSL context is submitted, until
\* SSL_new makes the session again.
C27_ServerSideSessionDropped ==
    /\ \A ssl \in SSLs : serverSide[ssl] => ssl_sessions[ssl] = NoSession
    /\ IsTlsPayload(tlsEv) => ~serverSide[tlsEv.ssl_ctx]

\* The payload is ignored, but the entry stays as it was.
C27_ServerSidePayloadIgnored ==
    [][\A ssl \in SSLs :
          (~serverSide[ssl] /\ serverSide'[ssl])
              => (tlsEv' = NoTlsEvent /\ ssl_sessions'[ssl] = ssl_sessions[ssl])]_vars

\* A payload was submitted for a context whose first classified payload had
\* shown a server-side role.
C27_PayloadAfterServerSide ==
    /\ IsTlsPayload(tlsEv)
    /\ serverSide[tlsEv.ssl_ctx]
    /\ ssl_sessions[tlsEv.ssl_ctx].http_version # HTTP_VERSION_UNKNOWN

\* C28: an SSL context has a session entry exactly from the SSL_new that
\* returned it to its SSL_free: a payload event is submitted only for a
\* context that is live, and a successful handshake on a context without an
\* entry makes none.
C28_SessionFromNewToFree ==
    /\ \A ssl \in SSLs : ssl_sessions[ssl] # NoSession <=> life[ssl] = "live"
    /\ IsTlsPayload(tlsEv) => life[tlsEv.ssl_ctx] = "live"

\* SSL_do_handshake has returned 1 for a context that no SSL_new had
\* returned, and the context has no entry; the other context was made and
\* freed and has none either.
C28_Witness ==
    /\ life[1] = "none"
    /\ handshaken[1]
    /\ ssl_sessions[1] = NoSession
    /\ life[2] = "freed"
    /\ ssl_sessions[2] = NoSession

\* C29: every submitted TLS payload event has buf_size <= size and buf_size
\* <= 64 KiB, and its size is the number of bytes of the operation, for
\* every number the probes can be given.
C29_TlsSizesTrue ==
    IsTlsPayload(tlsEv) =>
        /\ WideLeq(tlsEv.buf_size, tlsEv.size)
        /\ WideLeq(tlsEv.buf_size, WideMaxBuf)
        /\ tlsEv.size = tlsCount

\* buf_size never exceeds 64 KiB.
C29_BufSizeWithinBuffer ==
    IsTlsPayload(tlsEv) => WideLeq(tlsEv.buf_size, WideMaxBuf)

\* For a number below 2^32 that the probe could read, all three hold.
C29_SizesTrueBelow32Bits ==
    (/\ IsTlsPayload(tlsEv)
     /\ tlsCount.q < 65536
     /\ tlsEv.size # WideZero)
    => /\ WideLeq(tlsEv.buf_size, tlsEv.size)
       /\ tlsEv.size = tlsCount

\* Every submitted data event has buf_size <= size and buf_size <= 64 KiB.
C29_DataEventSizes ==
    ringbuf # NoData =>
        /\ ringbuf.buf_size <= ringbuf.size
        /\ ringbuf.buf_size <= MAX_BUF_SIZE
        /\ ringbuf.buf_size = BSize(ringbuf.buf)

\* An event of 4 GiB and 5 bytes was submitted with size 5 and buf_size
\* 65 536.
C29_SizeWrapped ==
    /\ IsTlsPayload(tlsEv)
    /\ tlsCount = Wide(65536, 5)
    /\ tlsEv.size = Wide(0, 5)
    /\ tlsEv.buf_size = WideMaxBuf

\* The hooks Load was to attach in this environment, and those whose
\* attachment failed.
HooksOf(env) ==
    {Link("exit_vfs_read", 0), Link("exit_vfs_write", 0)}
        \cup {Link("SSL_write", i) : i \in 1..Len(env.targets)}

FailedHooks(env) ==
    (IF env.read THEN {} ELSE {Link("exit_vfs_read", 0)})
        \cup (IF env.write THEN {} ELSE {Link("exit_vfs_write", 0)})
        \cup {Link("SSL_write", i) :
                i \in {j \in 1..Len(env.targets) :
                         ~env.targets[j].open \/ ~env.targets[j].attach}}

LinksOf(l) == {l.links[i] : i \in 1..Len(l.links)}

\* C30: when everything but the attachment of one hook succeeds, Load
\* returns nil with every other hook attached and the reader open.
C30_SingleAttachFailureTolerated ==
    (/\ loader.loaded
     /\ loader.env.objs /\ loader.env.reader /\ loader.env.discover
     /\ Cardinality(FailedHooks(loader.env)) = 1)
    => /\ loader.err = "nil"
       /\ loader.reader
       /\ LinksOf(loader) = HooksOf(loader.env) \ FailedHooks(loader.env)

\* The failures on SSL targets are tolerated: with both fexit programs
\* attached, Load returns nil with the reader open and the hooks that did
\* not fail attached, however many targets failed.
C30_TargetFailuresTolerated ==
    (/\ loader.loaded
     /\ loader.env.objs /\ loader.env.reader /\ loader.env.discover
     /\ loader.env.read /\ loader.env.write)
    => /\ loader.err = "nil"
       /\ loader.reader
       /\ LinksOf(loader) = HooksOf(loader.env) \ FailedHooks(loader.env)

\* A failure to attach exit_vfs_write alone made Load return an error,
\* with exit_vfs_read attached and no reader.
C30_FexitFailureAborts ==
    /\ loader.loaded
    /\ loader.env.objs /\ loader.env.reader /\ loader.env.discover
    /\ FailedHooks(loader.env) = {Link("exit_vfs_write", 0)}
    /\ loader.err # "nil"
    /\ ~loader.reader
    /\ LinksOf(loader) = {Link("exit_vfs_read", 0)}

\* One of two targets failed and Load returned nil with the other attached.
C30_TargetSkipped ==
    /\ loader.loaded
    /\ Len(loader.env.targets) = 2
    /\ FailedHooks(loader.env) = {Link("SSL_write", 1)}
    /\ loader.err = "nil"
    /\ Link("SSL_write", 2) \in LinksOf(loader)

\* The chunked body given to ParseMessage could not be decoded:
\* parseChunkedBody returned an error or did not return.
ChunkedDecodingFailed ==
    /\ httpMsg.called
    /\ httpMsg.IsChunked
    /\ Len(httpMsg.rest) > 0
    /\ \/ parseChunkedBody(httpMsg.rest).err # "nil"
       \/ parseChunkedBody(httpMsg.rest).panic

\* C31: when the chunked body cannot be decoded, ParseMessage returns the
\* message and its body is the raw bytes after the header separator.
C31_ChunkedFailureFallsBack ==
    ChunkedDecodingFailed =>
        /\ httpMsg.msg.returned
        /\ httpMsg.msg.Body = httpMsg.rest

\* When parseChunkedBody returns an error, the body is the raw bytes.
C31_ChunkErrorFallsBack ==
    (/\ httpMsg.called /\ httpMsg.IsChunked /\ Len(httpMsg.rest) > 0
     /\ parseChunkedBody(httpMsg.rest).err # "nil")
    => /\ httpMsg.msg.returned
       /\ httpMsg.msg.Body = httpMsg.rest

\* A chunk after a decoded one had a size that is not hexadecimal, and the
\* body is all the raw bytes.
C31_FellBackAfterChunk ==
    /\ httpMsg.called /\ httpMsg.IsChunked
    /\ httpMsg.rest = <<"1", CR, LF, "x", CR, LF>> \o <<"z", CR, LF, "x", CR, LF>>
    /\ httpMsg.msg.returned
    /\ httpMsg.msg.Body = httpMsg.rest

\* A chunk with a negative size made ParseMessage panic.
C31_NegativeSizePanics ==
    /\ httpMsg.called /\ httpMsg.IsChunked
    /\ httpMsg.rest = <<"-", "1", CR, LF, "x", CR, LF>>
    /\ ~httpMsg.msg.returned

C33_FullChannelNeverBlocks ==
    /\ [](rb.pc = "send" => ENABLED rbSend)
    /\ [][(rb.pc = "send" /\ rb.n = ChanCap /\ ~rb.ctxDone /\ rb'.pc # "send")
            => (rb'.pc = "select" /\ rb'.dropped = rb.dropped + 1 /\ rb'.n = rb.n)]_vars
    /\ [][(rb.httpN = ChanCap /\ rb'.httpProduced # rb.httpProduced)
            => (rb'.httpN = rb.httpN)]_vars

\* Each producer dropped an event on its full channel, and the goroutine went
\* on to its next Read.
C33_Witness ==
    /\ rb.dropped > 0
    /\ rb.n = ChanCap
    /\ rb.pc = "read"
    /\ rb.httpDropped > 0

\* C34: a run of validateAndCleanCache leaves exactly the entries whose
\* descriptor is open, calls Close on the descriptor of each entry it
\* removed, and closes no open descriptor.
C34_ValidateRemovesExactlyInvalid ==
    [][(nsw'.last.op = "validate" /\ nsw.ticked /\ ~nsw'.ticked) =>
        /\ DOMAIN nsw'.s.cache =
              {nsID \in DOMAIN nsw.s.cache : nsw.s.cache[nsID] \in DOMAIN nsw.s.open}
        /\ \A nsID \in DOMAIN nsw'.s.cache : nsw'.s.cache[nsID] = nsw.s.cache[nsID]
        /\ nsw'.last.closed =
              {nsw.s.cache[nsID] : nsID \in DOMAIN nsw.s.cache \ DOMAIN nsw'.s.cache}
        /\ nsw'.s.open = nsw.s.open]_vars

\* A validation removed one entry and left another.
C34_Witness ==
    /\ nsw.last.op = "validate"
    /\ nsw.last.closed # {}
    /\ DOMAIN nsw.s.cache # {}

\* C35: Close ends once begun, no validation runs once Close has gone past
\* its wait, and the descriptors are closed only with the goroutine ended.
C35_CloseWaitsForCleanup ==
    /\ (nsw.closing = "waiting") ~> (nsw.closing = "closed")
    /\ [](nsw.closing = "closed" => nsw.bg = "done")
    /\ [][nsw.closing = "closed" => nsw'.last.op # "validate" \/ nsw'.last = nsw.last]_vars

\* Close was waiting while the goroutine, with a tick at hand, had not ended.
C35_Witness ==
    /\ nsw.closing = "waiting"
    /\ nsw.bg = "select"
    /\ nsw.ticked
    /\ DOMAIN nsw.s.cache # {}

\* C36: every open descriptor but the home one is in the cache under the
\* namespace it was opened for; a SwitchTo that finds a cached descriptor
\* on which setns succeeds uses it and opens nothing; one on which setns
\* fails removes the entry and closes it, and ends with a fresh descriptor
\* in the cache or with no entry.
C36_DiscoveredFdsCachedOrClosed ==
    /\ [](\A fd \in DOMAIN nsw.s.open \ {originalFd} :
            \E nsID \in DOMAIN nsw.s.cache :
                nsw.s.cache[nsID] = fd /\ nsw.s.open[fd] = nsID)
    /\ [][(nsw'.last.op = "SwitchTo" /\ nsw'.n # nsw.n
           /\ nsw'.last.ns \in DOMAIN nsw.s.cache) =>
            LET ns == nsw'.last.ns
                fd == nsw.s.cache[ns]
            IN  IF nsw'.last.cachedOK
                THEN /\ nsw'.last.ok
                     /\ nsw'.s.cache = nsw.s.cache
                     /\ nsw'.s.open = nsw.s.open
                     /\ nsw'.s.curNS = nsw.s.open[fd]
                ELSE IF nsw'.last.ok
                THEN /\ nsw'.s.open[nsw'.s.cache[ns]] = ns
                     /\ nsw'.s.curNS = ns
                ELSE /\ ns \notin DOMAIN nsw'.s.cache
                     /\ fd \notin DOMAIN nsw'.s.open]_vars

\* A SwitchTo failed on its cached descriptor and on the one it then found,
\* with another namespace in the cache.
C36_Witness ==
    /\ nsw.last.op = "SwitchTo"
    /\ nsw.last.had
    /\ ~nsw.last.ok /\ ~nsw.last.cachedOK /\ nsw.last.findOK
    /\ nsw.last.ns \notin DOMAIN nsw.s.cache
    /\ DOMAIN nsw.s.cache # {}

\* C37: the goroutine is locked to its thread once from a successful
\* SwitchTo to its Restore, and not at all after a failed SwitchTo or a
\* Restore: the LockOSThread calls made are then undone one for one.
C37_LockedFromSwitchToRestore ==
    nsw.s.lockDepth = IF nsw.switched THEN 1 ELSE 0

\* A SwitchTo failed on its cached descriptor and succeeded on the one it
\* then found.
C37_Witness ==
    /\ nsw.switched
    /\ nsw.last.op = "SwitchTo"
    /\ nsw.last.had
    /\ ~nsw.last.cachedOK
    /\ nsw.s.lockDepth = 1

\* The value is a request or a notification that parses and is on the
\* allow-list.
ValidRequest(p) ==
    /\ parseJSONRPC(p).type \in {"request", "notification"}
    /\ validateMCPMessage(parseJSONRPC(p))

\* The handler drops the value whatever the caches hold.
AlwaysDropped(p) ==
    \/ parseJSONRPC(p).type = "error"
    \/ ~validateMCPMessage(parseJSONRPC(p))

\* C38: a valid request of the buffer whose bytes have not been seen is
\* published by the handler whatever the values before it in the buffer
\* were.
C38_LaterMessagesStillEmitted ==
    [][nobs' # nobs =>
        \A j \in 1..Len(last'.ev.buf) :
            (/\ ValidRequest(last'.ev.buf[j])
             /\ ~Live(seenHashCache, last'.ev.buf[j], seenHashCacheTTL))
            => \E e \in Events(published') : e.raw = last'.ev.buf[j]
      ]_vars

\* On HTTP a response with no cached request does not end the handler: the
\* valid request after it is published.  On both transports a valid new
\* request is published when every value before it was published too.
C38_EmittedAfterUnmatchedHttpResponse ==
    [][nobs' # nobs =>
        \A j \in 1..Len(last'.ev.buf) :
            (/\ ValidRequest(last'.ev.buf[j])
             /\ ~Live(seenHashCache, last'.ev.buf[j], seenHashCacheTTL)
             /\ \A i \in 1..(j - 1) :
                   \/ \E e \in Events(published') : e.raw = last'.ev.buf[i]
                   \/ /\ last'.ev.t = "http"
                      /\ parseJSONRPC(last'.ev.buf[i]).type = "response")
            => \E e \in Events(published') : e.raw = last'.ev.buf[j]
      ]_vars

\* A request outside the allow-list came first in a stdio buffer and the
\* valid request after it was neither published nor recorded as seen.
C38_ValidRequestLost ==
    /\ last.ev.t = "stdio"
    /\ last.ev.buf = <<ReqBogus, ReqInit>>
    /\ published = <<>>
    /\ ReqInit \notin DOMAIN seenHashCache
    /\ ReqBogus \in DOMAIN seenHashCache

\* C39: the hash of a value is recorded before the value is parsed, so a
\* value whose first observation was dropped is in the dedup cache, and
\* while it is there no observation of the same bytes publishes it,
\* whatever else was observed and cached since.
C39_DroppedStaysDropped ==
    [][nobs' # nobs =>
        /\ \A j \in 1..Len(last'.ev.buf) :
              (/\ AlwaysDropped(last'.ev.buf[j])
               /\ \A i \in 1..(j - 1) :
                     \E e \in Events(published') : e.raw = last'.ev.buf[i])
              => /\ last'.ev.buf[j] \in DOMAIN seenHashCache'
                 /\ seenHashCache'[last'.ev.buf[j]].emitted = 0
        /\ \A p \in DOMAIN seenHashCache :
              seenHashCache[p].emitted = 0 =>
                  /\ p \in DOMAIN seenHashCache'
                  /\ seenHashCache'[p].emitted = 0
                  /\ \A e \in Events(published') : e.raw # p
      ]_vars

\* A response was dropped for want of its request, the request was then
\* published, and the response, observed again with its request cached, was
\* not published.
C39_Witness ==
    /\ nobs = 3
    /\ RespOne \in Range(last.ev.buf)
    /\ RespOne \in DOMAIN seenHashCache
    /\ seenHashCache[RespOne].emitted = 0
    /\ seenHashCache[RespOne].age > 0
    /\ ReqInit \in DOMAIN seenHashCache
    /\ seenHashCache[ReqInit].emitted = 1
    /\ Live(requestIDCache, KeyOf(last.ev, parseJSONRPC(RespOne).id), requestIDCacheTTL)
    /\ \A e \in Events(published) : e.raw # RespOne

\* ---------------------------------------------------------------------
\* C40: under any interleaving of SSL calls made by different threads of the
\* same process, the return probe of SSL_read, SSL_read_ex and
\* SSL_do_handshake uses the SSL context and buffer recorded by the entry
\* probe of that same call, never the arguments recorded by another
\* thread's call.  Stated of the last return probe: the arguments it used
\* were written by the returning thread's own entry probe and are the
\* context that thread passed.
C40_ReturnUsesOwnArguments ==
    thr.last.fn # "none" =>
        /\ thr.last.by = thr.last.tid
        /\ thr.last.used = thr.last.own

\* C40, what holds: the arguments a return probe uses were recorded by a
\* thread of the same process, for the same function.
C40_ArgumentsStayInProcess ==
    /\ thr.last.by # NoTid => PidKey(thr.last.by) = PidKey(thr.last.tid)
    /\ \A f \in SSLFns, p \in Pids :
          thr.by[f][p] # NoTid => PidKey(thr.by[f][p]) = p

\* C40: a thread's SSL call returned and its return probe used the context
\* another thread of its process had recorded, not its own.
C40_OtherThreadsArgumentsUsed ==
    /\ thr.last.fn # "none"
    /\ thr.last.by \notin {NoTid, thr.last.tid}
    /\ thr.last.used # thr.last.own
    /\ PidKey(thr.last.by) = PidKey(thr.last.tid)

====
